---- MODULE Spec2Model ----
(***************************************************************************)
(* Model of the bank-statement text interpreter of the Personal Finance    *)
(* Assistant backend: class TransactionHistoryProcessor of                 *)
(* src/backend/server.js (lines 468-773), exported as one shared instance. *)
(*                                                                         *)
(* A JavaScript string is a sequence of one-character strings, indexed     *)
(* from 0 by the operators At, Slice, IndexOf and LastIndexOf as in the    *)
(* source.  A value that may be null is a sequence of length 0 (null) or 1 *)
(* (the value), except strings, whose null is NullStr.  An amount is an    *)
(* integer number of 10^-FracDigits units.                                 *)
(***************************************************************************)
EXTENDS Integers, Sequences, FiniteSets, TLC

\* ------------------------------------------------------------------ bounds

\* Longest document handed to parseTransactionText, in lines.
MaxLines == 2
\* Longest candidate sequence handed to cleanupTransactions directly.
MaxCands == 2
\* Fractional digits an amount of the model keeps (the inputs carry no more).
FracDigits == 2
\* Largest month and day components of the date tokens given to normalizeDate.
MaxMonthTok == 13
MaxDayTok == 32
\* Most processPDF calls suspended at `await pdfParse` at one time.
MaxPending == 1
\* Rows of table transactions.
MaxRows == 2
\* Pieces a description handed to cleanupDescription is made of.
MaxPieces == 3
\* Logins the frontend performs after it is loaded.
MaxLogins == 4
\* Lines of a statement whose lines share a posting date.
MaxSameDay == 2

\* --------------------------------------------------------- JavaScript strings

Digit == {"0", "1", "2", "3", "4", "5", "6", "7", "8", "9"}
DigitSeq == <<"0", "1", "2", "3", "4", "5", "6", "7", "8", "9">>
\* The whitespace the bounded inputs contain (\s of the regular expressions).
Whitespace == {" "}
LowerAlpha == <<"a", "b", "c", "d", "e", "f", "g", "h", "i", "j", "k", "l", "m",
                "n", "o", "p", "q", "r", "s", "t", "u", "v", "w", "x", "y", "z">>
UpperAlpha == <<"A", "B", "C", "D", "E", "F", "G", "H", "I", "J", "K", "L", "M",
                "N", "O", "P", "Q", "R", "S", "T", "U", "V", "W", "X", "Y", "Z">>

\* null where a string is expected (transaction.date, transaction.description).
NullStr == <<"null">>
\* undefined where a string is expected (dateMatch[1] of a one-element array).
Undefined == <<"undefined">>

Min(a, b) == IF a < b THEN a ELSE b
Max(a, b) == IF a > b THEN a ELSE b

\* s[i], s.substring(a, b) with 0 <= a, b clipped to the length.
At(s, i) == s[i + 1]
Slice(s, a, b) == SubSeq(s, a + 1, Min(b, Len(s)))

\* s.startsWith(sub, i)
StartsAt(s, sub, i) ==
  /\ i + Len(sub) <= Len(s)
  /\ \A k \in 1..Len(sub) : s[i + k] = sub[k]

\* s.includes(sub)
Includes(s, sub) == \E i \in 0..(Len(s) - Len(sub)) : StartsAt(s, sub, i)

\* s.indexOf(sub), s.lastIndexOf(sub): -1 when sub does not occur.
IndexOf(s, sub) ==
  IF Includes(s, sub)
  THEN CHOOSE i \in 0..(Len(s) - Len(sub)) :
         /\ StartsAt(s, sub, i)
         /\ \A j \in 0..(i - 1) : ~StartsAt(s, sub, j)
  ELSE -1
LastIndexOf(s, sub) ==
  IF Includes(s, sub)
  THEN CHOOSE i \in 0..(Len(s) - Len(sub)) :
         /\ StartsAt(s, sub, i)
         /\ \A j \in (i + 1)..(Len(s) - Len(sub)) : ~StartsAt(s, sub, j)
  ELSE -1

\* s.replace(sub, '') with a string pattern: the first occurrence only.
ReplaceFirst(s, sub) ==
  LET i == IndexOf(s, sub)
  IN IF i < 0 THEN s ELSE Slice(s, 0, i) \o Slice(s, i + Len(sub), Len(s))

\* s.trim()
RECURSIVE TrimStart(_)
TrimStart(s) ==
  IF s # <<>> /\ Head(s) \in Whitespace THEN TrimStart(Tail(s)) ELSE s
RECURSIVE TrimEnd(_)
TrimEnd(s) ==
  IF s # <<>> /\ s[Len(s)] \in Whitespace
  THEN TrimEnd(SubSeq(s, 1, Len(s) - 1)) ELSE s
Trim(s) == TrimEnd(TrimStart(s))

\* toUpperCase / toLowerCase of one character and of a string.
ToUpperChar(c) ==
  IF \E k \in 1..26 : LowerAlpha[k] = c
  THEN UpperAlpha[CHOOSE k \in 1..26 : LowerAlpha[k] = c] ELSE c
ToLowerChar(c) ==
  IF \E k \in 1..26 : UpperAlpha[k] = c
  THEN LowerAlpha[CHOOSE k \in 1..26 : UpperAlpha[k] = c] ELSE c
ToUpperCase(s) == [k \in 1..Len(s) |-> ToUpperChar(s[k])]
ToLowerCase(s) == [k \in 1..Len(s) |-> ToLowerChar(s[k])]

\* s.split(sep) for a one-character separator.
RECURSIVE Split(_, _)
Split(s, sep) ==
  LET i == IndexOf(s, <<sep>>)
  IN IF i < 0 THEN <<s>>
     ELSE <<Slice(s, 0, i)>> \o Split(Slice(s, i + 1, Len(s)), sep)

\* ------------------------------------------------------------------ numbers

RECURSIVE Pow10(_)
Pow10(n) == IF n = 0 THEN 1 ELSE 10 * Pow10(n - 1)
Scale == Pow10(FracDigits)

DigitVal(c) == CHOOSE v \in 0..9 : DigitSeq[v + 1] = c
IsDigits(s) == \A k \in 1..Len(s) : s[k] \in Digit

\* The value of a digit string ("" is 0, as ToNumber("") is).
RECURSIVE NatOf(_)
NatOf(s) ==
  IF s = <<>> THEN 0
  ELSE 10 * NatOf(SubSeq(s, 1, Len(s) - 1)) + DigitVal(s[Len(s)])

\* The decimal digits of a natural number.
RECURSIVE NatStr(_)
NatStr(n) ==
  IF n < 10 THEN <<DigitSeq[n + 1]>>
  ELSE NatStr(n \div 10) \o <<DigitSeq[(n % 10) + 1]>>

\* n written with at least w digits (padStart(w, '0')).
RECURSIVE Pad(_, _)
Pad(s, w) == IF Len(s) >= w THEN s ELSE Pad(<<"0">> \o s, w)

RECURSIVE StripZeros(_)
StripZeros(s) ==
  IF s # <<>> /\ s[Len(s)] = "0"
  THEN StripZeros(SubSeq(s, 1, Len(s) - 1)) ELSE s

\* parseFloat of digits, optionally followed by "." and digits; the value in
\* 10^-FracDigits units.
ParseFloat(s) ==
  LET dot == IndexOf(s, <<".">>)
      ip == IF dot < 0 THEN s ELSE Slice(s, 0, dot)
      fr == IF dot < 0 THEN <<>> ELSE Slice(s, dot + 1, Len(s))
      frk == [k \in 1..FracDigits |-> IF k <= Len(fr) THEN fr[k] ELSE "0"]
  IN NatOf(ip) * Scale + NatOf(frk)

\* Number.prototype.toString of a non-negative amount: the shortest decimal,
\* no trailing zeros and no "." for a whole number.
NumberToString(v) ==
  LET fr == StripZeros(Pad(NatStr(v % Scale), FracDigits))
  IN NatStr(v \div Scale) \o (IF fr = <<>> THEN <<>> ELSE <<".">> \o fr)

\* ------------------------------------------------- this.patterns (471-493)

\* The end of the longest match of \d* from index i.
RECURSIVE DigitsEnd(_, _)
DigitsEnd(s, i) ==
  IF i < Len(s) /\ At(s, i) \in Digit THEN DigitsEnd(s, i + 1) ELSE i

\* The end of an optional character c at index i ("c?").
OptChar(s, i, c) == IF i < Len(s) /\ At(s, i) = c THEN i + 1 ELSE i

RECURSIVE SpaceEnd(_, _)
SpaceEnd(s, i) ==
  IF i < Len(s) /\ At(s, i) \in Whitespace THEN SpaceEnd(s, i + 1) ELSE i

\* The numeral \d+,?\d*\.?\d* anchored at i: the end of its greedy match, or -1
\* when s[i] is no digit.  A shorter match ends before a digit, a comma or a
\* dot, so what follows the numeral in a pattern can only match after the
\* greedy one: backtracking into the numeral never succeeds.
NumEnd(s, i) ==
  IF i < Len(s) /\ At(s, i) \in Digit
  THEN DigitsEnd(s, OptChar(s, DigitsEnd(s, OptChar(s, DigitsEnd(s, i), ",")), "."))
  ELSE -1

\* The five amount patterns, in the order of the source.
AmountPatterns == 1..5
NoMatch == <<>>
Match(i, e, gs, ge) == <<[index |-> i, end |-> e, gs |-> gs, ge |-> ge]>>

\* Where capture group 1 starts when pattern p matches with its first character
\* at index i, from what precedes the numeral in the pattern; -1 when that part
\* does not match.
\*   1  /\$(\d+,?\d*\.?\d*)/g          2  /(\d+,?\d*\.?\d*)\s*CR/g
\*   3  /(\d+,?\d*\.?\d*)\s*DR/g       4  /-\$?(\d+,?\d*\.?\d*)/g
\*   5  /(\d+,?\d*\.?\d*)-/g
GroupStart(p, s, i) ==
  CASE p = 1 -> IF At(s, i) = "$" THEN i + 1 ELSE -1
    [] p = 4 -> IF At(s, i) = "-" THEN OptChar(s, i + 1, "$") ELSE -1
    [] OTHER -> i

\* The end of the match of pattern p whose numeral spans gs..ge, from what
\* follows the numeral in the pattern; -1 when that part does not match.
MatchEnd(p, s, ge) ==
  CASE p \in {1, 4} -> ge
    [] p = 2 -> IF StartsAt(s, <<"C", "R">>, SpaceEnd(s, ge))
                THEN SpaceEnd(s, ge) + 2 ELSE -1
    [] p = 3 -> IF StartsAt(s, <<"D", "R">>, SpaceEnd(s, ge))
                THEN SpaceEnd(s, ge) + 2 ELSE -1
    [] p = 5 -> IF ge < Len(s) /\ At(s, ge) = "-" THEN ge + 1 ELSE -1

MatchOfEnd(i, gs, ge, e) == IF e >= 0 THEN Match(i, e, gs, ge) ELSE NoMatch
MatchOfNumeral(p, s, i, gs, ge) ==
  IF ge >= 0 THEN MatchOfEnd(i, gs, ge, MatchEnd(p, s, ge)) ELSE NoMatch
MatchOfGroup(p, s, i, gs) ==
  IF gs >= 0 THEN MatchOfNumeral(p, s, i, gs, NumEnd(s, gs)) ELSE NoMatch

\* Pattern p matched with its first character at index i < Len(s): the match
\* (its index, its end and the span of capture group 1) or NoMatch.
AmountMatchAt(p, s, i) == MatchOfGroup(p, s, i, GroupStart(p, s, i))

\* RegExpBuiltinExec of a global pattern from lastIndex li: the leftmost match
\* starting at li or later; no match when li is beyond the string.
RECURSIVE AmountExec(_, _, _)
RECURSIVE AmountExecOr(_, _, _, _)
AmountExecOr(m, p, s, li) == IF m # NoMatch THEN m ELSE AmountExec(p, s, li + 1)
AmountExec(p, s, li) ==
  IF li >= Len(s) THEN NoMatch ELSE AmountExecOr(AmountMatchAt(p, s, li), p, s, li)

\* pattern.test(line) of a global pattern: whether it matched, and the
\* lastIndex it leaves on the pattern (the match's end, or 0 on failure).
TestResult(m) ==
  [found |-> m # NoMatch, lastIndex |-> IF m = NoMatch THEN 0 ELSE m[1].end]
RegExpTest(p, s, li) == TestResult(AmountExec(p, s, li))

\* [...line.matchAll(pattern)]: the matcher is a copy of the pattern that starts
\* at the pattern's lastIndex; the pattern itself is left as it is.
RECURSIVE MatchAll(_, _, _)
RECURSIVE MatchAllAfter(_, _, _)
MatchAllAfter(m, p, s) ==
  IF m = NoMatch THEN <<>> ELSE m \o MatchAll(p, s, m[1].end)
MatchAll(p, s, li) == MatchAllAfter(AmountExec(p, s, li), p, s)

\* amountPattern.toString().includes('-')
PatternHasMinus(p) == p \in {4, 5}

\* The three date patterns, in the order of the source.
DatePatterns == 1..3

\* \d{n} anchored at i: exactly n digits.
DigitsN(s, i, n) ==
  /\ i + n <= Len(s)
  /\ \A k \in 0..(n - 1) : At(s, i + k) \in Digit

\* \d{1,2} anchored at i and followed by the character sep: the index after
\* sep, or -1.  Two digits are tried first, then one.
Digits12Sep(s, i, sep) ==
  IF DigitsN(s, i, 2) /\ i + 2 < Len(s) /\ At(s, i + 2) = sep THEN i + 3
  ELSE IF DigitsN(s, i, 1) /\ i + 1 < Len(s) /\ At(s, i + 1) = sep THEN i + 2
  ELSE -1

\* The end of \d{4} at index b, or of \d{1,2} at index b (two digits when there
\* are two); -1 when b is -1 or the digits are missing.
Digits4End(s, b) == IF b >= 0 /\ DigitsN(s, b, 4) THEN b + 4 ELSE -1
Digits12End(s, b) ==
  IF b >= 0 /\ DigitsN(s, b, 1) THEN (IF DigitsN(s, b, 2) THEN b + 2 ELSE b + 1)
  ELSE -1
Digits12SepNext(s, a, sep) == IF a < 0 THEN -1 ELSE Digits12Sep(s, a, sep)
Digits4Sep(s, i) ==
  IF DigitsN(s, i, 4) /\ i + 4 < Len(s) /\ At(s, i + 4) = "-" THEN i + 5 ELSE -1

\* Date pattern d matched with its first character at index i: the end of the
\* match, or -1.
\*   1  /(\d{1,2}\/\d{1,2}\/\d{4})/g     2  /(\d{1,2}-\d{1,2}-\d{4})/g
\*   3  /(\d{4}-\d{1,2}-\d{1,2})/g
DateMatchEnd(d, s, i) ==
  CASE d = 1 -> Digits4End(s, Digits12SepNext(s, Digits12Sep(s, i, "/"), "/"))
    [] d = 2 -> Digits4End(s, Digits12SepNext(s, Digits12Sep(s, i, "-"), "-"))
    [] d = 3 -> Digits12End(s, Digits12SepNext(s, Digits4Sep(s, i), "-"))

\* line.match(datePattern) of a global pattern: the matched substrings from
\* index 0 on, without capture groups; <<>> stands for null.
RECURSIVE DateMatches(_, _, _)
RECURSIVE DateMatchesAt(_, _, _, _)
DateMatchesAt(e, d, s, i) ==
  IF e >= 0 THEN <<Slice(s, i, e)>> \o DateMatches(d, s, e)
  ELSE DateMatches(d, s, i + 1)
DateMatches(d, s, from) ==
  IF from >= Len(s) THEN <<>>
  ELSE DateMatchesAt(DateMatchEnd(d, s, from), d, s, from)

\* --------------------------------------------------------------- Date objects

\* The day number (days since 1970-01-01) of day 1 of month index mn (0..11) of
\* year y in the proleptic Gregorian calendar.  The year is counted from
\* March (yy, with mp the months since March) and split into 400-year eras.
YearDays(yoe) == yoe * 365 + (yoe \div 4) - (yoe \div 100)
DaysOfEra(yy, era, mp) ==
  era * 146097 + YearDays(yy - era * 400) + ((153 * mp + 2) \div 5) - 719468
DaysOfMarchYear(yy, mp) == DaysOfEra(yy, yy \div 400, mp)
DayFromYearMonth(y, mn) ==
  DaysOfMarchYear(IF mn <= 1 THEN y - 1 ELSE y, IF mn >= 2 THEN mn - 2 ELSE mn + 10)

\* MakeDay(year, month, date) of ECMAScript: a month index or a day outside its
\* range rolls over into the neighbouring months and years.
MakeDay(year, month, date) ==
  DayFromYearMonth(year + (month \div 12), month % 12) + date - 1

\* new Date(year, monthIndex, day) in local time, as the UTC day number its
\* instant falls on.  A year of 0..99 means 1900 + year.  Local midnight is
\* tzOffset minutes ahead of UTC midnight, so east of Greenwich (tzOffset > 0)
\* the instant belongs to the previous UTC day.
LocalDateUTCDay(year, month, date, tzOffset) ==
  MakeDay(IF year >= 0 /\ year <= 99 THEN 1900 + year ELSE year, month, date)
    + ((0 - tzOffset) \div 1440)

\* The civil date <<year, month, day>> of a day number.
CivilOfMonth(yoe, era, doy, mp) ==
  <<yoe + era * 400 + (IF mp >= 10 THEN 1 ELSE 0),
    IF mp < 10 THEN mp + 3 ELSE mp - 9,
    doy - ((153 * mp + 2) \div 5) + 1>>
CivilOfDayOfYear(yoe, era, doy) == CivilOfMonth(yoe, era, doy, (5 * doy + 2) \div 153)
CivilOfYearOfEra(doe, era, yoe) == CivilOfDayOfYear(yoe, era, doe - YearDays(yoe))
CivilOfDayOfEra(doe, era) ==
  CivilOfYearOfEra(doe, era,
    (doe - (doe \div 1460) + (doe \div 36524) - (doe \div 146096)) \div 365)
CivilOfEra(z, era) == CivilOfDayOfEra(z - era * 146097, era)
CivilFromDays(days) == CivilOfEra(days + 719468, (days + 719468) \div 146097)

\* date.toISOString().split('T')[0]: YYYY-MM-DD, the year written with a sign
\* and six digits outside 0..9999.
ISOYear(y) ==
  IF y > 9999 THEN <<"+">> \o Pad(NatStr(y), 6)
  ELSE IF y < 0 THEN <<"-">> \o Pad(NatStr(-y), 6)
  ELSE Pad(NatStr(y), 4)
ISODateOfCivil(c) ==
  ISOYear(c[1]) \o <<"-">> \o Pad(NatStr(c[2]), 2) \o <<"-">> \o Pad(NatStr(c[3]), 2)
ISODateString(days) == ISODateOfCivil(CivilFromDays(days))

\* new Date(isoDate).getTime() for a date-only string written by
\* ISODateString with a year of 0 or more, in days: date-only forms are UTC.
DateOfISOParts(parts) == MakeDay(NatOf(parts[1]), NatOf(parts[2]) - 1, NatOf(parts[3]))
DateParse(str) ==
  DateOfISOParts(Split(IF Head(str) = "+" THEN Tail(str) ELSE str, "-"))

\* ----------------------------------------------------- normalizeDate (701-735)

\* ToNumber of a date component is NaN unless it is made of digits.
IsNumeric(part) == IsDigits(part)

\* The Date built from the three components, <<>> when it is invalid (NaN).
NewDate(y, m, d, tzOffset) ==
  IF IsNumeric(y) /\ IsNumeric(m) /\ IsNumeric(d)
  THEN <<LocalDateUTCDay(NatOf(y), NatOf(m) - 1, NatOf(d), tzOffset)>>
  ELSE <<>>

\* Lines 709-712 (slash) and 716-724 (dash): the Date of the split token,
\* <<>> when it stays undefined or is invalid.
DateOfParts(parts, slash, tzOffset) ==
  IF Len(parts) # 3 THEN <<>>
  ELSE IF slash THEN NewDate(parts[3], parts[1], parts[2], tzOffset)
  ELSE IF Len(parts[1]) = 4 THEN NewDate(parts[1], parts[2], parts[3], tzOffset)
  ELSE NewDate(parts[3], parts[2], parts[1], tzOffset)

DateOfString(dateString, tzOffset) ==
  IF Includes(dateString, <<"/">>)
  THEN DateOfParts(Split(dateString, "/"), TRUE, tzOffset)
  ELSE IF Includes(dateString, <<"-">>)
  THEN DateOfParts(Split(dateString, "-"), FALSE, tzOffset)
  ELSE <<>>

\* Lines 727-734: the ISO date of a valid Date, null otherwise.
DateResult(date) == IF date # <<>> THEN ISODateString(date[1]) ELSE NullStr

normalizeDate(dateString, tzOffset) ==
  IF dateString = Undefined THEN NullStr   \* TypeError, caught at line 730
  ELSE DateResult(DateOfString(dateString, tzOffset))

\* ------------------------------------------------ keyword tables (496-514)

\* this.categoryMappings as Object.entries lists it: in insertion order.
categoryMappings == <<
  <<<<"A", "T", "M">>, "Cash">>,
  <<<<"D", "E", "P", "O", "S", "I", "T">>, "Income">>,
  <<<<"P", "A", "Y", "R", "O", "L", "L">>, "Salary">>,
  <<<<"G", "R", "O", "C", "E", "R", "Y">>, "Food & Dining">>,
  <<<<"R", "E", "S", "T", "A", "U", "R", "A", "N", "T">>, "Food & Dining">>,
  <<<<"G", "A", "S">>, "Transportation">>,
  <<<<"F", "U", "E", "L">>, "Transportation">>,
  <<<<"P", "H", "A", "R", "M", "A", "C", "Y">>, "Healthcare">>,
  <<<<"M", "E", "D", "I", "C", "A", "L">>, "Healthcare">>,
  <<<<"R", "E", "N", "T">>, "Bills & Utilities">>,
  <<<<"E", "L", "E", "C", "T", "R", "I", "C">>, "Bills & Utilities">>,
  <<<<"U", "T", "I", "L", "I", "T", "Y">>, "Bills & Utilities">>,
  <<<<"A", "M", "A", "Z", "O", "N">>, "Shopping">>,
  <<<<"T", "A", "R", "G", "E", "T">>, "Shopping">>,
  <<<<"W", "A", "L", "M", "A", "R", "T">>, "Shopping">>,
  <<<<"N", "E", "T", "F", "L", "I", "X">>, "Entertainment">>,
  <<<<"S", "P", "O", "T", "I", "F", "Y">>, "Entertainment">> >>

\* headerKeywords of isHeaderLine (642-645).
headerKeywords == {
  <<"D", "A", "T", "E">>,
  <<"D", "E", "S", "C", "R", "I", "P", "T", "I", "O", "N">>,
  <<"A", "M", "O", "U", "N", "T">>,
  <<"B", "A", "L", "A", "N", "C", "E">>,
  <<"T", "R", "A", "N", "S", "A", "C", "T", "I", "O", "N">>,
  <<"A", "C", "C", "O", "U", "N", "T">>,
  <<"S", "T", "A", "T", "E", "M", "E", "N", "T">>,
  <<"P", "E", "R", "I", "O", "D">>,
  <<"P", "A", "G", "E">>,
  <<"S", "U", "M", "M", "A", "R", "Y">> }

\* incomeKeywords of isIncomeDescription (658-661).
incomeKeywords == {
  <<"D", "E", "P", "O", "S", "I", "T">>,
  <<"P", "A", "Y", "R", "O", "L", "L">>,
  <<"S", "A", "L", "A", "R", "Y">>,
  <<"W", "A", "G", "E">>,
  <<"I", "N", "C", "O", "M", "E">>,
  <<"R", "E", "F", "U", "N", "D">>,
  <<"D", "I", "V", "I", "D", "E", "N", "D">>,
  <<"I", "N", "T", "E", "R", "E", "S", "T">>,
  <<"B", "O", "N", "U", "S">>,
  <<"C", "O", "M", "M", "I", "S", "S", "I", "O", "N">> }

\* The words of isBalanceLine's first pattern and of its second (653-654).
balanceWords == {<<"b", "a", "l", "a", "n", "c", "e">>, <<"b", "a", "l">>, <<"t", "o", "t", "a", "l">>}
subBalanceWords == {<<"a", "v", "a", "i", "l", "a", "b", "l", "e">>, <<"p", "e", "n", "d", "i", "n", "g">>}

\* null where a category or a type is expected.
NullLabel == "(null)"

\* -------------------------------------------------- line classifier (641-655)

\* this.patterns.amount.some(pattern => pattern.test(line)), from pattern p
\* on: the patterns are tested in order up to the first that matches, and each
\* test leaves its lastIndex on the pattern it tested.
RECURSIVE TestSome(_, _, _)
RECURSIVE TestSomeAfter(_, _, _, _)
TestSomeAfter(t, p, line, lastIdx) ==
  IF t.found
  THEN [found |-> TRUE, lastIndex |-> [lastIdx EXCEPT ![p] = t.lastIndex]]
  ELSE TestSome(p + 1, line, [lastIdx EXCEPT ![p] = t.lastIndex])
TestSome(p, line, lastIdx) ==
  IF p > 5 THEN [found |-> FALSE, lastIndex |-> lastIdx]
  ELSE TestSomeAfter(RegExpTest(p, line, lastIdx[p]), p, line, lastIdx)

\* isHeaderLine(line): its result and the lastIndex values it leaves.  The
\* patterns are tested only when the line contains a header keyword (&&).
HasHeaderKeyword(upperLine) ==
  \E keyword \in headerKeywords : Includes(upperLine, keyword)
HeaderResult(t) == [result |-> ~t.found, lastIndex |-> t.lastIndex]
isHeaderLine(line, lastIdx) ==
  IF HasHeaderKeyword(ToUpperCase(line))
  THEN HeaderResult(TestSome(1, line, lastIdx))
  ELSE [result |-> FALSE, lastIndex |-> lastIdx]

\* [:\s]* from index i.
RECURSIVE ColonSpaceEnd(_, _)
ColonSpaceEnd(s, i) ==
  IF i < Len(s) /\ (At(s, i) = ":" \/ At(s, i) \in Whitespace)
  THEN ColonSpaceEnd(s, i + 1) ELSE i

\* isBalanceLine(line): /(?:balance|bal|total)[:\s]*\$?\d+/i matches and
\* /(?:available|pending)/i does not.  Neither pattern is global.
DigitAt(s, k) == k < Len(s) /\ At(s, k) \in Digit
BalanceMatch(low) ==
  \E w \in balanceWords : \E i \in 0..(Len(low) - 1) :
    /\ StartsAt(low, w, i)
    /\ DigitAt(low, OptChar(low, ColonSpaceEnd(low, i + Len(w)), "$"))
IsBalanceLower(low) ==
  BalanceMatch(low) /\ ~\E w \in subBalanceWords : Includes(low, w)
\* A balance test that never finds a balance line; the noise-line claim must
\* tell it from isBalanceLine.
isBalanceLineNever(line) == FALSE

isBalanceLine(line) == IsBalanceLower(ToLowerCase(line))

\* ------------------------------------------ description and category (657-699)

HasIncomeKeyword(upperDesc) ==
  \E keyword \in incomeKeywords : Includes(upperDesc, keyword)
\* A test that compares the description as it is written; the direction claim
\* must tell it from isIncomeDescription.
isIncomeDescriptionCaseSensitive(description) == HasIncomeKeyword(description)

isIncomeDescription(description) == HasIncomeKeyword(ToUpperCase(description))

\* .replace(/^\d+\s*/, '')
StripLeadingNumber(s) ==
  IF s # <<>> /\ Head(s) \in Digit
  THEN Slice(s, SpaceEnd(s, DigitsEnd(s, 0)), Len(s)) ELSE s

\* .replace(/\s+/g, ' ')
RECURSIVE CollapseSpaces(_)
CollapseSpaces(s) ==
  IF s = <<>> THEN <<>>
  ELSE IF Head(s) \in Whitespace
  THEN <<" ">> \o CollapseSpaces(Slice(s, SpaceEnd(s, 0), Len(s)))
  ELSE <<Head(s)>> \o CollapseSpaces(Tail(s))

\* .replace(/\*+/g, '')
RECURSIVE RemoveAsterisks(_)
RemoveAsterisks(s) ==
  IF s = <<>> THEN <<>>
  ELSE IF Head(s) = "*" THEN RemoveAsterisks(Tail(s))
  ELSE <<Head(s)>> \o RemoveAsterisks(Tail(s))

\* .replace(/#\d+/g, '')
RECURSIVE RemoveReferences(_)
RemoveReferences(s) ==
  IF s = <<>> THEN <<>>
  ELSE IF Head(s) = "#" /\ Len(s) > 1 /\ s[2] \in Digit
  THEN RemoveReferences(Slice(s, DigitsEnd(s, 1), Len(s)))
  ELSE <<Head(s)>> \o RemoveReferences(Tail(s))

\* Lines 676-679: the first character upper-cased, the rest lower-cased.
Capitalize(cleaned) ==
  IF Len(cleaned) > 0
  THEN <<ToUpperChar(Head(cleaned))>> \o ToLowerCase(Tail(cleaned))
  ELSE cleaned

cleanupDescription(description) ==
  Capitalize(Trim(RemoveReferences(RemoveAsterisks(
    CollapseSpaces(StripLeadingNumber(description))))))

\* The first entry of categoryMappings, from entry k on, whose keyword the
\* upper-cased description contains; then the two defaults.
RECURSIVE CategoryFrom(_, _)
CategoryFrom(upperDesc, k) ==
  IF k > Len(categoryMappings)
  THEN IF \/ Includes(upperDesc, <<"T", "R", "A", "N", "S", "F", "E", "R">>)
          \/ Includes(upperDesc, <<"P", "A", "Y", "M", "E", "N", "T">>)
       THEN "Transfer" ELSE "Other"
  ELSE IF Includes(upperDesc, categoryMappings[k][1]) THEN categoryMappings[k][2]
  ELSE CategoryFrom(upperDesc, k + 1)

\* A lookup that compares the description as it is written; the category
\* claim must tell it from suggestCategory.
suggestCategoryCaseSensitive(description) == CategoryFrom(description, 1)

suggestCategory(description) == CategoryFrom(ToUpperCase(description), 1)

\* ---------------------------------------------- parseTransactionLine (561-639)

\* dateMatch[1] of the array line.match returns for a global pattern: the
\* second matched substring, undefined when the line holds one match only.
DateMatchGroup(dateMatch) ==
  IF Len(dateMatch) >= 2 THEN dateMatch[2] ELSE Undefined

\* Lines 576-583: the first date pattern, from pattern d on, that matches the
\* line decides the date; no pattern matching leaves it null.
RECURSIVE DateFrom(_, _, _)
RECURSIVE DateFromMatch(_, _, _, _)
DateFromMatch(dateMatch, d, line, tzOffset) ==
  IF dateMatch # <<>> THEN normalizeDate(DateMatchGroup(dateMatch), tzOffset)
  ELSE DateFrom(d + 1, line, tzOffset)
DateFrom(d, line, tzOffset) ==
  IF d > 3 THEN NullStr
  ELSE DateFromMatch(DateMatches(d, line, 0), d, line, tzOffset)

\* amountStr.replace(/,/g, '')
RECURSIVE RemoveCommas(_)
RemoveCommas(s) ==
  IF s = <<>> THEN <<>>
  ELSE IF Head(s) = "," THEN RemoveCommas(Tail(s))
  ELSE <<Head(s)>> \o RemoveCommas(Tail(s))

\* Lines 600-605: the credit flag once an amount pattern p has matched.
CreditSignal(line, p) ==
  IF \/ Includes(line, <<"D", "R">>)
     \/ Includes(line, <<"-">>)
     \/ PatternHasMinus(p)
  THEN FALSE
  ELSE \/ Includes(line, <<"C", "R">>)
       \/ Includes(line, <<"D", "E", "P", "O", "S", "I", "T">>)

\* Lines 593-598: the amount of the last match.
AmountOfMatch(line, lastMatch) ==
  ParseFloat(RemoveCommas(Slice(line, lastMatch.gs, lastMatch.ge)))

\* Lines 585-608: the first amount pattern, from pattern p on, with a match
\* decides the amount (its last match) and the credit flag; <<>> is no amount.
RECURSIVE AmountFrom(_, _, _)
RECURSIVE AmountFromMatches(_, _, _, _)
AmountFromMatches(amountMatches, p, line, lastIdx) ==
  IF Len(amountMatches) > 0
  THEN [amount |-> <<AmountOfMatch(line, amountMatches[Len(amountMatches)])>>,
        isCredit |-> CreditSignal(line, p),
        pattern |-> p]
  ELSE AmountFrom(p + 1, line, lastIdx)
AmountFrom(p, line, lastIdx) ==
  IF p > 5 THEN [amount |-> <<>>, isCredit |-> FALSE, pattern |-> 0]
  ELSE AmountFromMatches(MatchAll(p, line, lastIdx[p]), p, line, lastIdx)

\* A number that is neither 0 nor missing; a string that is neither null nor "".
TruthyNumber(a) == a # <<>> /\ a[1] # 0
\* A truth test that takes the empty string for a value; the completeness
\* claim must tell it from TruthyString.
TruthyStringOrEmpty(s) == s # NullStr
TruthyString(s) == s # NullStr /\ s # <<>>

\* Lines 614-620: the text before the amount, without the date, cleaned up.
DescriptionBefore(line, amountIndex, date) ==
  IF amountIndex > 0
  THEN cleanupDescription(
         IF TruthyString(date)
         THEN Trim(ReplaceFirst(Trim(Slice(line, 0, amountIndex)), date))
         ELSE Trim(Slice(line, 0, amountIndex)))
  ELSE NullStr

\* Lines 610-622: the description, null unless the amount's string form occurs
\* in the line at an index above 0.
DescriptionOf(line, amount, date) ==
  IF TruthyNumber(amount)
  THEN DescriptionBefore(line, LastIndexOf(line, NumberToString(amount[1])), date)
  ELSE NullStr

\* Lines 624-638: type and category of a transaction that has an amount and a
\* description.
Assemble(line, date, a, description) ==
  [date |-> date,
   description |-> description,
   amount |-> a.amount,
   type |-> IF ~(TruthyNumber(a.amount) /\ TruthyString(description)) THEN NullLabel
            ELSE IF a.isCredit \/ isIncomeDescription(description)
            THEN "income" ELSE "expense",
   category |-> IF TruthyNumber(a.amount) /\ TruthyString(description)
                THEN suggestCategory(description) ELSE NullLabel,
   raw_line |-> line]

\* The transaction object as parseTransactionLine has filled it when it
\* returns, for a line that is neither a header nor a balance line.
TransactionWith(line, date, a) ==
  Assemble(line, date, a, DescriptionOf(line, a.amount, date))
TransactionOf(line, lastIdx, tzOffset) ==
  TransactionWith(line, DateFrom(1, line, tzOffset), AmountFrom(1, line, lastIdx))

\* Lines 625-638: the transaction is returned when it has an amount and a
\* description, null otherwise.
LineResult(t, lastIdx) ==
  [value |-> IF TruthyNumber(t.amount) /\ TruthyString(t.description)
             THEN <<t>> ELSE <<>>,
   transaction |-> <<t>>,
   lastIndex |-> lastIdx]

\* parseTransactionLine(line) on a processor whose amount patterns hold the
\* lastIndex values lastIdx: the value returned (<<>> is null), the transaction
\* object built (<<>> when the line was skipped) and the lastIndex values left.
ParseAfterHeaderTest(line, h, tzOffset) ==
  IF h.result \/ isBalanceLine(line)
  THEN [value |-> <<>>, transaction |-> <<>>, lastIndex |-> h.lastIndex]
  ELSE LineResult(TransactionOf(line, h.lastIndex, tzOffset), h.lastIndex)
parseTransactionLine(line, lastIdx, tzOffset) ==
  ParseAfterHeaderTest(line, isHeaderLine(line, lastIdx), tzOffset)

\* ---------------------------------------------- cleanupTransactions (737-757)

\* The filters of lines 739 and 740.
HasAllFields(t) ==
  TruthyString(t.date) /\ TruthyNumber(t.amount) /\ TruthyString(t.description)
\* A second filter that lets every amount through; the amount claim must
\* tell it from the filter of line 740.
PositiveAmountIgnored(t) == TRUE
PositiveAmount(t) == t.amount[1] > 0

\* The defaults of lines 741-745.
WithDefaults(t) ==
  [t EXCEPT !.description = IF TruthyString(t.description) THEN t.description
                            ELSE <<"U", "n", "k", "n", "o", "w", "n", " ",
                                   "T", "r", "a", "n", "s", "a", "c", "t", "i", "o", "n">>,
            !.category = IF t.category \in {NullLabel, ""} THEN "Other"
                         ELSE t.category]

\* Array.prototype.filter
RECURSIVE FilterValid(_)
FilterValid(ts) ==
  IF ts = <<>> THEN <<>>
  ELSE IF HasAllFields(Head(ts)) /\ PositiveAmount(Head(ts))
  THEN <<Head(ts)>> \o FilterValid(Tail(ts))
  ELSE FilterValid(Tail(ts))

\* t inserted into the sorted sequence ts after every element that does not
\* compare greater: (a, b) => new Date(a.date) - new Date(b.date).
RECURSIVE InsertByDate(_, _)
\* An insertion that puts t before the elements it compares equal to, as an
\* unstable sort may; the idempotence claim must tell it from InsertByDate.
InsertByDateBeforeEqual(ts, t) ==
  IF ts = <<>> THEN <<t>>
  ELSE IF DateParse(Head(ts).date) - DateParse(t.date) >= 0
  THEN <<t>> \o ts
  ELSE <<Head(ts)>> \o InsertByDate(Tail(ts), t)

InsertByDate(ts, t) ==
  IF ts = <<>> THEN <<t>>
  ELSE IF DateParse(Head(ts).date) - DateParse(t.date) > 0
  THEN <<t>> \o ts
  ELSE <<Head(ts)>> \o InsertByDate(Tail(ts), t)

\* A sort that leaves the order alone; the ordering claim must tell it from
\* the sort of line 746.
SortByDateSkipped(ts) == ts

\* A sort that inserts the elements from the last to the first, so that
\* elements that compare equal come out in reverse; the stability claim must
\* tell it from the sort of line 746.
RECURSIVE SortByDateLastFirst(_)
SortByDateLastFirst(ts) ==
  IF ts = <<>> THEN <<>>
  ELSE InsertByDate(SortByDateLastFirst(Tail(ts)), Head(ts))

\* Array.prototype.sort with that comparator: a stable sort.
RECURSIVE SortByDate(_)
SortByDate(ts) ==
  IF ts = <<>> THEN <<>>
  ELSE InsertByDate(SortByDate(SubSeq(ts, 1, Len(ts) - 1)), ts[Len(ts)])

RECURSIVE MapDefaults(_)
MapDefaults(ts) ==
  IF ts = <<>> THEN <<>> ELSE <<WithDefaults(Head(ts))>> \o MapDefaults(Tail(ts))

cleanupTransactions(transactions) ==
  SortByDate(MapDefaults(FilterValid(transactions)))

\* getDateRange(transactions): <<>> is null.
DateRangeOf(days) ==
  <<[start |-> ISODateString(CHOOSE x \in days : \A y \in days : x <= y),
     end |-> ISODateString(CHOOSE x \in days : \A y \in days : x >= y)]>>
getDateRange(transactions) ==
  IF Len(transactions) = 0 THEN <<>>
  ELSE DateRangeOf({DateParse(transactions[k].date) : k \in 1..Len(transactions)})

\* ---------------------------------------------- prepareForDatabase (760-770)

\* The object the callback of map builds for one transaction.
PrepareRow(t, userId) ==
  [user_id |-> userId, type |-> t.type, amount |-> t.amount,
   category |-> t.category, description |-> t.description, date |-> t.date,
   receipt_path |-> NullStr]

\* Rows in the opposite order; the claim on prepareForDatabase must tell them
\* from the rows of map.
PrepareRowsReversed(transactions, userId) ==
  [k \in 1..Len(transactions) |->
     PrepareRow(transactions[Len(transactions) + 1 - k], userId)]

\* Array.prototype.map with that callback: a new array.
PrepareRows(transactions, userId) ==
  [k \in 1..Len(transactions) |-> PrepareRow(transactions[k], userId)]

\* prepareForDatabase(transactions, userId): the array returned and the
\* array passed in as the call leaves it.
prepareForDatabase(transactions, userId) ==
  [value |-> PrepareRows(transactions, userId), transactions |-> transactions]

\* --------------------------------------------- parseTransactionText (544-559)

\* text.split('\n').map(line => line.trim()).filter(line => line.length > 0)
RECURSIVE NonEmptyLines(_)
KeepNonEmpty(line) == IF Len(line) > 0 THEN <<line>> ELSE <<>>
NonEmptyLines(rawLines) ==
  IF rawLines = <<>> THEN <<>>
  ELSE KeepNonEmpty(Trim(Head(rawLines))) \o NonEmptyLines(Tail(rawLines))

\* Lines taken as they stand; the traceability claim must tell them from the
\* trimmed lines of SegmentLines.
SegmentLinesUntrimmed(text) == Split(text, "\n")

SegmentLines(text) == NonEmptyLines(Split(text, "\n"))

\* The loop of lines 548-555 over the lines left, with the transactions
\* collected so far: every call of parseTransactionLine finds the lastIndex
\* values the call before it left.
RECURSIVE ParseLines(_, _, _, _)
RECURSIVE ParseLinesAfter(_, _, _, _)
ParseLinesAfter(r, lines, transactions, tzOffset) ==
  ParseLines(lines, transactions \o r.value, r.lastIndex, tzOffset)
ParseLines(lines, transactions, lastIdx, tzOffset) ==
  IF lines = <<>> THEN [transactions |-> transactions, lastIndex |-> lastIdx]
  ELSE ParseLinesAfter(parseTransactionLine(Head(lines), lastIdx, tzOffset),
                       Tail(lines), transactions, tzOffset)

TextResult(r) == [value |-> cleanupTransactions(r.transactions), lastIndex |-> r.lastIndex]
parseTransactionText(text, lastIdx, tzOffset) ==
  TextResult(ParseLines(SegmentLines(text), <<>>, lastIdx, tzOffset))

\* ------------------------------------------------------------------ inputs

\* The two examples of the specification's section 8.
\* 01/15/2024 WALMART PURCHASE $45.67
WalmartLine ==
  <<"0", "1", "/", "1", "5", "/", "2", "0", "2", "4", " ", "W", "A", "L", "M", "A", "R", "T", " ", "P", "U", "R", "C", "H", "A", "S", "E", " ", "$", "4", "5", ".", "6", "7">>
\* 02/01/2024 PAYROLL DEPOSIT $2500.00 CR
PayrollLine ==
  <<"0", "2", "/", "0", "1", "/", "2", "0", "2", "4", " ", "P", "A", "Y", "R", "O", "L", "L", " ", "D", "E", "P", "O", "S", "I", "T", " ", "$", "2", "5", "0", "0", ".", "0", "0", " ", "C", "R">>
\* Lines that hold a header keyword and an amount.
\* 01/15/2024 ACCOUNT FEE CHARGED $45.67
AccountFeeLine ==
  <<"0", "1", "/", "1", "5", "/", "2", "0", "2", "4", " ", "A", "C", "C", "O", "U", "N", "T", " ", "F", "E", "E", " ", "C", "H", "A", "R", "G", "E", "D", " ", "$", "4", "5", ".", "6", "7">>
\* STATEMENT CREDIT OF THE PERIOD IS 12.00 CR
StatementCreditLine ==
  <<"S", "T", "A", "T", "E", "M", "E", "N", "T", " ", "C", "R", "E", "D", "I", "T", " ", "O", "F", " ", "T", "H", "E", " ", "P", "E", "R", "I", "O", "D", " ", "I", "S", " ", "1", "2", ".", "0", "0", " ", "C", "R">>
\* Amounts written with one and with two thousands separators.
\* 03/05/2024 RENT $1,234.56
RentLine ==
  <<"0", "3", "/", "0", "5", "/", "2", "0", "2", "4", " ", "R", "E", "N", "T", " ", "$", "1", ",", "2", "3", "4", ".", "5", "6">>
\* 03/05/2024 BONUS $1,234,567.89
BonusLine ==
  <<"0", "3", "/", "0", "5", "/", "2", "0", "2", "4", " ", "B", "O", "N", "U", "S", " ", "$", "1", ",", "2", "3", "4", ",", "5", "6", "7", ".", "8", "9">>
\* Lines that hold two date tokens (a transaction date and a posting date).
\* 01/15/2024 01/16/2024 CAFE $4.50
CafeLine ==
  <<"0", "1", "/", "1", "5", "/", "2", "0", "2", "4", " ", "0", "1", "/", "1", "6", "/", "2", "0", "2", "4", " ", "C", "A", "F", "E", " ", "$", "4", ".", "5", "0">>
\* 01/10/2024 01/12/2024 GROCERY MART $20.00
GroceryLine ==
  <<"0", "1", "/", "1", "0", "/", "2", "0", "2", "4", " ", "0", "1", "/", "1", "2", "/", "2", "0", "2", "4", " ", "G", "R", "O", "C", "E", "R", "Y", " ", "M", "A", "R", "T", " ", "$", "2", "0", ".", "0", "0">>
\* A line whose amount is zero.
\* 01/15/2024 01/16/2024 VOID $0.00
VoidLine ==
  <<"0", "1", "/", "1", "5", "/", "2", "0", "2", "4", " ", "0", "1", "/", "1", "6", "/", "2", "0", "2", "4", " ", "V", "O", "I", "D", " ", "$", "0", ".", "0", "0">>

\* A line with two date tokens whose description names an income.
\* 01/20/2024 01/21/2024 REFUND $9.99
RefundLine ==
  <<"0", "1", "/", "2", "0", "/", "2", "0", "2", "4", " ", "0", "1", "/", "2", "1", "/", "2", "0", "2", "4", " ", "R", "E", "F", "U", "N", "D", " ", "$", "9", ".", "9", "9">>
\* A line of column headers and a line that announces a balance.
\* DATE DESCRIPTION AMOUNT BALANCE
HeaderLine ==
  <<"D", "A", "T", "E", " ", "D", "E", "S", "C", "R", "I", "P", "T", "I", "O", "N", " ", "A", "M", "O", "U", "N", "T", " ", "B", "A", "L", "A", "N", "C", "E">>
\* Closing Balance: $234.56
BalanceLine ==
  <<"C", "l", "o", "s", "i", "n", "g", " ", "B", "a", "l", "a", "n", "c", "e", ":", " ", "$", "2", "3", "4", ".", "5", "6">>
\* A line whose text before the amount is asterisks only.
\* ** 5.00 CR
StarLine ==
  <<"*", "*", " ", "5", ".", "0", "0", " ", "C", "R">>

\* Lines whose date is written with dashes: one with a CR token, one with a
\* trailing minus after the amount.
\* 15-01-2024 STORE 5.00 CR
StoreCreditLine ==
  <<"1", "5", "-", "0", "1", "-", "2", "0", "2", "4", " ", "S", "T", "O", "R", "E", " ", "5", ".", "0", "0", " ", "C", "R">>
\* 15-01-2024 STORE 4.50-
StoreLine ==
  <<"1", "5", "-", "0", "1", "-", "2", "0", "2", "4", " ", "S", "T", "O", "R", "E", " ", "4", ".", "5", "0", "-">>
\* A line with a DR token whose description names an income.
\* 01/20/2024 REFUND 9.99 DR
RefundDebitLine ==
  <<"0", "1", "/", "2", "0", "/", "2", "0", "2", "4", " ", "R", "E", "F", "U", "N", "D", " ", "9", ".", "9", "9", " ", "D", "R">>

\* A line whose posting date is that of CafeLine.
\* 01/14/2024 01/16/2024 BAKERY $7.25
BakeryLine ==
  <<"0", "1", "/", "1", "4", "/", "2", "0", "2", "4", " ", "0", "1", "/", "1", "6", "/", "2", "0", "2", "4", " ", "B", "A", "K", "E", "R", "Y", " ", "$", "7", ".", "2", "5">>

\* The lines parseTransactionLine is called with.
Lines == {WalmartLine, PayrollLine, AccountFeeLine, StatementCreditLine, RentLine,
          BonusLine, CafeLine, GroceryLine, VoidLine, RefundLine, HeaderLine,
          BalanceLine, StarLine, StoreCreditLine, StoreLine,
          RefundDebitLine}

\* The raw lines the documents are made of: lines as they stand, a line with
\* surrounding blanks and a blank line.
DocLines ==
  {CafeLine, <<" ", " ">> \o GroceryLine \o <<" ">>, AccountFeeLine, RefundLine, <<" ">>}

\* rawLines.join('\n')
RECURSIVE JoinLines(_)
JoinLines(rawLines) ==
  IF rawLines = <<>> THEN <<>>
  ELSE IF Len(rawLines) = 1 THEN rawLines[1]
  ELSE rawLines[1] \o <<"\n">> \o JoinLines(Tail(rawLines))

\* The documents: every sequence of at most MaxLines raw lines, and every
\* line of Lines as a document of its own.
Texts ==
  {JoinLines(rawLines) :
     rawLines \in UNION {[1..n -> DocLines] : n \in 0..MaxLines}} \cup Lines

\* Statements whose lines share a posting date: at most MaxSameDay lines, two
\* of them posted on 01/16/2024, one on another day and one that holds a
\* header keyword.
SameDayLines == {CafeLine, BakeryLine, GroceryLine, AccountFeeLine}
SameDayTexts ==
  {JoinLines(rawLines) :
     rawLines \in UNION {[1..n -> SameDayLines] : n \in 0..MaxSameDay}}

\* The offsets of local time from UTC, in minutes, the process may run under
\* (America/New_York in winter, UTC, Asia/Kolkata).
TimezoneOffsets == {-300, 0, 330}

\* The candidates cleanupTransactions is called with directly: every
\* combination of a missing, zero, negative or positive amount with a missing
\* or present date, and one candidate without description or category.
CandidateDates == {NullStr, <<"2", "0", "2", "4", "-", "0", "1", "-", "1", "6">>, <<"2", "0", "2", "4", "-", "0", "1", "-", "1", "2">>}
CandidateAmounts == {<<>>, <<0>>, <<-500>>, <<450>>, <<1200>>}
Candidate(date, description, amount, category) ==
  [date |-> date, description |-> description, amount |-> amount,
   type |-> "expense", category |-> category, raw_line |-> <<"x">>]
Candidates ==
  {Candidate(d, <<"C", "a", "f", "e">>, a, "Other") :
     d \in CandidateDates, a \in CandidateAmounts}
  \cup {Candidate(<<"2", "0", "2", "4", "-", "0", "1", "-", "1", "2">>, NullStr, <<450>>, NullLabel),
        Candidate(<<"2", "0", "2", "4", "-", "0", "1", "-", "1", "2">>, <<>>, <<450>>, "")}
CandidateSeqs == UNION {[1..n -> Candidates] : n \in 0..MaxCands}

\* The lists prepareForDatabase is called with: the lists cleanupTransactions
\* returns, and a list of candidates as they stand.
PreparedSeqs ==
  {cleanupTransactions(s) : s \in CandidateSeqs}
  \cup {<<Candidate(NullStr, NullStr, <<>>, NullLabel),
           Candidate(NullStr, <<"C", "a", "f", "e">>, <<-500>>, "Other")>>}

\* The ids of the users transactions are prepared for.
UserIds == {1, 2}

\* The descriptions suggestCategory is called with directly: the empty
\* description, and one or two of these phrases.
DescriptionPhrases == {
  <<"p", "a", "y", "r", "o", "l", "l">>,
  <<"D", "E", "P", "O", "S", "I", "T">>,
  <<"W", "i", "r", "e", " ", "t", "r", "a", "n", "s", "f", "e", "r">>,
  <<"p", "a", "y", "m", "e", "n", "t">>,
  <<"V", "e", "g", "a", "s">>,
  <<"c", "a", "f", "e">>,
  <<"W", "a", "l", "m", "a", "r", "t">>,
  <<"a", "t", "m">>}
Descriptions ==
  {<<>>} \cup DescriptionPhrases
  \cup {a \o <<" ">> \o b : a \in DescriptionPhrases, b \in DescriptionPhrases}

\* The texts cleanupDescription is called with directly: at most MaxPieces of
\* these pieces in a row (a word, a marker between blanks, reference numbers
\* with and without blanks, a run of blanks, a leading number, an asterisk).
DescriptionPieces == {
  <<"A", "M", "Z", "N">>,
  <<" ", "*", " ">>,
  <<"#", "1", "2">>,
  <<" ", "#", "3", " ">>,
  <<" ", " ">>,
  <<"4", "2", " ">>,
  <<"*">>}
RECURSIVE JoinPieces(_)
JoinPieces(pieces) ==
  IF pieces = <<>> THEN <<>> ELSE Head(pieces) \o JoinPieces(Tail(pieces))
RawDescriptions ==
  {JoinPieces(pieces) :
     pieces \in UNION {[1..n -> DescriptionPieces] : n \in 0..MaxPieces}}

\* -------------------------------------------------------- processPDF (517-542)

\* A result whose summary counts every transaction as a debit; the summary
\* claim must tell it from processPDFResult.
processPDFResultAllDebits(text, transactions) ==
  [success |-> TRUE,
   transactions |-> transactions,
   rawText |-> text,
   summary |->
     [totalTransactions |-> Len(transactions),
      totalDebits |-> Len(transactions),
      totalCredits |-> Cardinality({k \in 1..Len(transactions) :
                                      transactions[k].type = "income"}),
      dateRange |-> getDateRange(transactions)]]

\* The object the try block returns (524-534).
processPDFResult(text, transactions) ==
  [success |-> TRUE,
   transactions |-> transactions,
   rawText |-> text,
   summary |->
     [totalTransactions |-> Len(transactions),
      totalDebits |-> Cardinality({k \in 1..Len(transactions) :
                                     transactions[k].type = "expense"}),
      totalCredits |-> Cardinality({k \in 1..Len(transactions) :
                                      transactions[k].type = "income"}),
      dateRange |-> getDateRange(transactions)]]

\* A catch block that reports success; the failure claim must tell it from
\* the catch block of lines 535-541.
processPDFCatchSwallowed(message) ==
  [success |-> TRUE, error |-> message, transactions |-> <<>>]

\* The object the catch block returns (535-541).
processPDFCatch(message) ==
  [success |-> FALSE, error |-> message, transactions |-> <<>>]

\* ------------------------------------------------------------ the processor

VARIABLES
  lastIndex,  \* lastIndex of each of this.patterns.amount, which are global
  tz,         \* the process's offset of local time from UTC, in minutes
  pending,    \* the number of processPDF calls suspended at `await pdfParse`
  ret,        \* the call that has just returned with its value (for a text,
              \* also the lastIndex values the call found), or NoCall
  users,      \* the rows of table users, in the order of their ids
  rows,       \* the rows of table transactions, in the order of their ids
  overview,   \* the GET /api/analytics/overview request being served
  client      \* the state of the frontend's AuthProvider

vars == <<lastIndex, tz, pending, ret, users, rows, overview, client>>

NoCall == [op |-> "none"]
\* No request for the overview is being served; the frontend is not loaded.
NoRequest == [open |-> FALSE, running |-> {}, completed |-> 0, results |-> {}, sends |-> <<>>]
NoClient == [token |-> <<>>, user |-> <<>>, stored |-> <<>>, inflight |-> {}, issued |-> 0]
FreshLastIndex == [p \in AmountPatterns |-> 0]

\* The module is loaded: new TransactionHistoryProcessor() (line 773).
Init ==
  /\ lastIndex = FreshLastIndex
  /\ tz \in TimezoneOffsets
  /\ pending = 0
  /\ ret = NoCall
  /\ users = <<>>
  /\ rows = <<>>
  /\ overview = NoRequest
  /\ client = NoClient

\* The caller takes the value returned.
Return ==
  /\ ret # NoCall
  /\ ret' = NoCall
  /\ UNCHANGED <<lastIndex, tz, pending, users, rows, overview, client>>

CallParseTransactionLine ==
  /\ ret = NoCall
  /\ \E line \in Lines :
       \E r \in {parseTransactionLine(line, lastIndex, tz)} :
          /\ lastIndex' = r.lastIndex
          /\ ret' = [op |-> "parseTransactionLine", arg |-> line,
                     value |-> r.value, transaction |-> r.transaction]
  /\ UNCHANGED <<tz, pending, users, rows, overview, client>>

\* parseTransactionText(text) for a text of `texts`.
ParseTransactionTextOf(texts) ==
  /\ ret = NoCall
  /\ \E text \in texts :
       \E r \in {parseTransactionText(text, lastIndex, tz)} :
          /\ lastIndex' = r.lastIndex
          /\ ret' = [op |-> "parseTransactionText", arg |-> text, value |-> r.value,
                     before |-> lastIndex]
  /\ UNCHANGED <<tz, pending, users, rows, overview, client>>

CallParseTransactionText == ParseTransactionTextOf(Texts)
CallParseSameDayText == ParseTransactionTextOf(SameDayTexts)

CallCleanupTransactions ==
  /\ ret = NoCall
  /\ \E transactions \in CandidateSeqs :
       ret' = [op |-> "cleanupTransactions", arg |-> transactions,
               value |-> cleanupTransactions(transactions)]
  /\ UNCHANGED <<lastIndex, tz, pending, users, rows, overview, client>>

CallSuggestCategory ==
  /\ ret = NoCall
  /\ \E description \in Descriptions :
       ret' = [op |-> "suggestCategory", arg |-> description,
               value |-> suggestCategory(description)]
  /\ UNCHANGED <<lastIndex, tz, pending, users, rows, overview, client>>

CallCleanupDescription ==
  /\ ret = NoCall
  /\ \E description \in RawDescriptions :
       ret' = [op |-> "cleanupDescription", arg |-> description,
               value |-> cleanupDescription(description)]
  /\ UNCHANGED <<lastIndex, tz, pending, users, rows, overview, client>>

CallPrepareForDatabase ==
  /\ ret = NoCall
  /\ \E transactions \in PreparedSeqs, userId \in UserIds :
       \E r \in {prepareForDatabase(transactions, userId)} :
          ret' = [op |-> "prepareForDatabase", arg |-> transactions,
                  userId |-> userId, value |-> r.value, after |-> r.transactions]
  /\ UNCHANGED <<lastIndex, tz, pending, users, rows, overview, client>>

\* processPDF(filePath) where fs.readFileSync throws: the catch block's object.
ProcessPDFReadFails ==
  /\ ret = NoCall
  /\ ret' = [op |-> "processPDF", threw |-> TRUE,
             value |-> processPDFCatch("ENOENT: no such file or directory")]
  /\ UNCHANGED <<lastIndex, tz, pending, users, rows, overview, client>>

\* processPDF(filePath) reads the file and suspends at `await pdfParse`.
ProcessPDFReads ==
  /\ pending < MaxPending
  /\ pending' = pending + 1
  /\ UNCHANGED <<lastIndex, tz, ret, users, rows, overview, client>>

\* pdfParse rejects: the suspended call resumes in its catch block.
ProcessPDFParseFails ==
  /\ pending > 0
  /\ ret = NoCall
  /\ pending' = pending - 1
  /\ ret' = [op |-> "processPDF", threw |-> TRUE,
             value |-> processPDFCatch("Invalid PDF structure")]
  /\ UNCHANGED <<lastIndex, tz, users, rows, overview, client>>

\* pdfParse resolves with an object without text: text.split raises a
\* TypeError inside parseTransactionText, before any line is read.
ProcessPDFNoText ==
  /\ pending > 0
  /\ ret = NoCall
  /\ pending' = pending - 1
  /\ ret' = [op |-> "processPDF", threw |-> TRUE,
             value |-> processPDFCatch("Cannot read properties of undefined")]
  /\ UNCHANGED <<lastIndex, tz, users, rows, overview, client>>

\* pdfParse resolves with the document's text: the suspended call resumes,
\* parses the text and returns the result with its summary.
ProcessPDFParsed ==
  /\ pending > 0
  /\ ret = NoCall
  /\ pending' = pending - 1
  /\ \E text \in Texts :
       \E r \in {parseTransactionText(text, lastIndex, tz)} :
          /\ lastIndex' = r.lastIndex
          /\ ret' = [op |-> "processPDF", threw |-> FALSE,
                     value |-> processPDFResult(text, r.value)]
  /\ UNCHANGED <<tz, users, rows, overview, client>>

Next ==
  \/ Return
  \/ CallParseTransactionLine
  \/ CallParseTransactionText
  \/ CallCleanupTransactions
  \/ CallSuggestCategory
  \/ CallPrepareForDatabase
  \/ ProcessPDFReadFails
  \/ ProcessPDFReads
  \/ ProcessPDFParseFails
  \/ ProcessPDFNoText
  \/ ProcessPDFParsed

Spec == Init /\ [][Next]_vars

\* cleanupDescription reads and writes nothing of the processor: its calls are
\* followed on a processor that serves nothing else.
NextDescription ==
  \/ Return
  \/ CallCleanupDescription

SpecDescription == Init /\ [][NextDescription]_vars

\* A processor that parses statements whose lines share a posting date.
NextSameDay ==
  \/ Return
  \/ CallParseSameDayText

SpecSameDay == Init /\ [][NextSameDay]_vars

\* -------------------------------------------------- normalizeDate on its own

\* The date tokens normalizeDate is called with: every month 0..MaxMonthTok and
\* day 0..MaxDayTok of a leap year and of a common year, written as the three
\* date patterns accept them (1: MM/DD/YYYY, 2: DD-MM-YYYY, 3: YYYY-MM-DD).
TokenYears == {2023, 2024}
TokenFormats == 1..3
TwoDigits(n) == Pad(NatStr(n), 2)
DateToken(fmt, y, m, d) ==
  CASE fmt = 1 -> TwoDigits(m) \o <<"/">> \o TwoDigits(d) \o <<"/">> \o Pad(NatStr(y), 4)
    [] fmt = 2 -> TwoDigits(d) \o <<"-">> \o TwoDigits(m) \o <<"-">> \o Pad(NatStr(y), 4)
    [] fmt = 3 -> Pad(NatStr(y), 4) \o <<"-">> \o TwoDigits(m) \o <<"-">> \o TwoDigits(d)

DateInputs ==
  {[op |-> "input", arg |-> DateToken(f, y, m, d),
    fmt |-> f, year |-> y, month |-> m, day |-> d] :
     f \in TokenFormats, y \in TokenYears, m \in 0..MaxMonthTok, d \in 0..MaxDayTok}
  \cup {[op |-> "input", arg |-> t, fmt |-> 0, year |-> 0, month |-> 0, day |-> 0] :
          t \in {Undefined, <<"2", "0", "2", "4">>, <<"1", "/", "2">>}}

InitDate ==
  /\ lastIndex = FreshLastIndex
  /\ tz \in TimezoneOffsets
  /\ pending = 0
  /\ ret \in DateInputs
  /\ users = <<>>
  /\ rows = <<>>
  /\ overview = NoRequest
  /\ client = NoClient

CallNormalizeDate ==
  /\ ret.op = "input"
  /\ ret' = [op |-> "normalizeDate", arg |-> ret.arg, fmt |-> ret.fmt,
             year |-> ret.year, month |-> ret.month, day |-> ret.day,
             value |-> normalizeDate(ret.arg, tz)]
  /\ UNCHANGED <<lastIndex, tz, pending, users, rows, overview, client>>

NextDate == CallNormalizeDate

SpecDate == InitDate /\ [][NextDate]_vars

\* ------------------------------------------------------- the HTTP API (1-463)

\* jsonwebtoken: a token carries its payload and verifies under the secret it
\* was signed with. jwtVerify gives <<payload>>, or <<>> for the error.
JWT_SECRET == "your-secret-key"
jwtSign(payload, secret) == [payload |-> payload, secret |-> secret]
jwtVerify(token, secret) ==
  IF token.secret = secret THEN <<token.payload>> ELSE <<>>

\* bcrypt.hash and bcrypt.compare.
bcryptHash(password) == <<"bcrypt", password>>
bcryptCompare(password, hash) == hash = bcryptHash(password)

\* SQLite's comparison of TEXT values, on the characters dates are made of.
CharCode(c) ==
  CHOOSE i \in 1..11 : <<"-", "0", "1", "2", "3", "4", "5", "6", "7", "8", "9">>[i] = c
RECURSIVE TextLE(_, _)
TextLE(a, b) ==
  IF a = <<>> THEN TRUE
  ELSE IF b = <<>> THEN FALSE
  ELSE IF Head(a) = Head(b) THEN TextLE(Tail(a), Tail(b))
  ELSE CharCode(Head(a)) < CharCode(Head(b))

\* An Authorization header as authHeader.split(' ') sees it; <<>> is a request
\* without the header. authenticateToken gives the response it sends, or
\* status 0 and the token's payload when it calls next().
NoHeader == <<>>
AuthAnswer(verified) ==
  IF verified = <<>>
  THEN [status |-> 403, body |-> [error |-> "Invalid token"], user |-> <<>>]
  ELSE [status |-> 0, body |-> <<>>, user |-> verified]
authenticateToken(authHeader) ==
  IF Len(authHeader) < 2
  THEN [status |-> 401, body |-> [error |-> "Access token required"], user |-> <<>>]
  ELSE AuthAnswer(jwtVerify(authHeader[2], JWT_SECRET))

\* POST /api/register: the response and the table users after it.
UserRow(id, body) ==
  [id |-> id, username |-> body.username, email |-> body.email,
   password_hash |-> bcryptHash(body.password)]
Registered(table, id, body) ==
  [status |-> 201,
   body |-> [token |-> jwtSign([id |-> id, username |-> body.username], JWT_SECRET),
             user |-> [id |-> id, username |-> body.username, email |-> body.email]],
   users |-> Append(table, UserRow(id, body))]
postRegister(table, body) ==
  IF body.username = <<>> \/ body.email = <<>> \/ body.password = <<>>
  THEN [status |-> 400, body |-> [error |-> "All fields are required"], users |-> table]
  ELSE IF \E k \in 1..Len(table) :
            table[k].username = body.username \/ table[k].email = body.email
  THEN [status |-> 400, body |-> [error |-> "Username or email already exists"],
        users |-> table]
  ELSE Registered(table, Len(table) + 1, body)

\* POST /api/login.
LoggedIn(user) ==
  [status |-> 200,
   body |-> [token |-> jwtSign([id |-> user.id, username |-> user.username], JWT_SECRET),
             user |-> [id |-> user.id, username |-> user.username, email |-> user.email]]]
postLogin(table, body) ==
  IF body.username = <<>> \/ body.password = <<>>
  THEN [status |-> 400, body |-> [error |-> "Username and password required"]]
  ELSE IF \E k \in 1..Len(table) :
            /\ table[k].username = body.username
            /\ bcryptCompare(body.password, table[k].password_hash)
  THEN LoggedIn(table[CHOOSE k \in 1..Len(table) : table[k].username = body.username])
  ELSE [status |-> 401, body |-> [error |-> "Invalid credentials"]]

\* POST /api/transactions behind authenticateToken: the response and the table
\* transactions after it. The table's CHECK on type fails the INSERT.
TransactionRow(id, userId, body) ==
  [id |-> id, user_id |-> userId, type |-> body.type, amount |-> body.amount,
   category |-> body.category, description |-> body.description, date |-> body.date]
Created(table, row) ==
  [status |-> 201, body |-> row, rows |-> Append(table, row)]
InsertTransaction(table, userId, body) ==
  IF body.type = "" \/ body.amount = 0 \/ body.category = "" \/ body.date = <<>>
  THEN [status |-> 400,
        body |-> [error |-> "Type, amount, category, and date are required"],
        rows |-> table]
  ELSE IF body.type \notin {"income", "expense"}
  THEN [status |-> 500, body |-> [error |-> "Failed to create transaction"],
        rows |-> table]
  ELSE Created(table, TransactionRow(Len(table) + 1, userId, body))
PostTransactionsAfter(auth, table, body) ==
  IF auth.status # 0
  THEN [status |-> auth.status, body |-> auth.body, rows |-> table]
  ELSE InsertTransaction(table, auth.user[1].id, body)
postTransactions(table, authHeader, body) ==
  PostTransactionsAfter(authenticateToken(authHeader), table, body)

\* GET /api/transactions (210-289). The rows of a user (WHERE user_id = ?),
\* the rows the filters of the query leave, and the orders ORDER BY date DESC,
\* created_at DESC may give them: created_at counts seconds and the model
\* keeps no clock, so rows of one date come in any order.
\* A selection without the condition on user_id; the isolation claim must tell
\* it from RowsOfUser.
RowsOfAnyUser(table, userId) == 1..Len(table)

RowsOfUser(table, userId) == {k \in 1..Len(table) : table[k].user_id = userId}
Selected(table, userId, q) ==
  {k \in RowsOfUser(table, userId) :
     /\ q.startDate = <<>> \/ TextLE(q.startDate, table[k].date)
     /\ q.endDate = <<>> \/ TextLE(table[k].date, q.endDate)
     /\ q.type = "" \/ table[k].type = q.type
     /\ q.category = "" \/ table[k].category = q.category}
Orderings(table, ks) ==
  {o \in [1..Cardinality(ks) -> ks] :
     /\ \A i, j \in 1..Cardinality(ks) : i # j => o[i] # o[j]
     /\ \A i, j \in 1..Cardinality(ks) :
          i < j => TextLE(table[o[j]].date, table[o[i]].date)}
\* LIMIT ? OFFSET ?
Page(order, limit, offset) ==
  SubSeq(order, offset + 1, Min(offset + limit, Len(order)))
PageRows(table, page) == [i \in 1..Len(page) |-> table[page[i]]]
TransactionsBody(table, order, q) ==
  [transactions |-> PageRows(table, Page(order, q.limit, (q.page - 1) * q.limit)),
   pagination |-> [currentPage |-> q.page,
                   totalPages |-> (Len(order) + q.limit - 1) \div q.limit,
                   totalItems |-> Len(order),
                   itemsPerPage |-> q.limit]]
GetTransactionsAfter(auth, table, q) ==
  IF auth.status # 0
  THEN {[status |-> auth.status, body |-> auth.body]}
  ELSE {[status |-> 200, body |-> TransactionsBody(table, o, q)] :
          o \in Orderings(table, Selected(table, auth.user[1].id, q))}
\* The responses the handler may send.
getTransactions(table, authHeader, q) ==
  GetTransactionsAfter(authenticateToken(authHeader), table, q)

\* GET /api/analytics/overview as registered first (292-341). The date filter
\* of lines 299-302, SUM(amount) over rows, and the four results; the rows of
\* expensesByCategory and monthlyTrends are kept as sets.
InDateFilter(row, q) ==
  (q.startDate # <<>> /\ q.endDate # <<>>) =>
    (TextLE(q.startDate, row.date) /\ TextLE(row.date, q.endDate))
RECURSIVE SumAmounts(_, _)
RECURSIVE SumFrom(_, _, _)
SumFrom(table, ks, k) == table[k].amount + SumAmounts(table, ks \ {k})
SumAmounts(table, ks) ==
  IF ks = {} THEN 0 ELSE SumFrom(table, ks, CHOOSE k \in ks : TRUE)
OfType(table, ks, type) == {k \in ks : table[k].type = type}
OverviewWith(table, ks, income, expenses) ==
  [totalIncome |-> income,
   totalExpenses |-> expenses,
   expensesByCategory |->
     {[category |-> c,
       total |-> SumAmounts(table, {k \in OfType(table, ks, "expense") :
                                      table[k].category = c})] :
        c \in {table[k].category : k \in OfType(table, ks, "expense")}},
   monthlyTrends |->
     {[month |-> m,
       income |-> SumAmounts(table, {k \in OfType(table, ks, "income") :
                                       Slice(table[k].date, 0, 7) = m}),
       expenses |-> SumAmounts(table, {k \in OfType(table, ks, "expense") :
                                         Slice(table[k].date, 0, 7) = m})] :
        m \in {Slice(table[k].date, 0, 7) : k \in ks}},
   netIncome |-> income - expenses]
OverviewBody(table, ks) ==
  OverviewWith(table, ks, SumAmounts(table, OfType(table, ks, "income")),
               SumAmounts(table, OfType(table, ks, "expense")))
analyticsOverview(table, userId, q) ==
  OverviewBody(table, {k \in RowsOfUser(table, userId) : InDateFilter(table[k], q)})
OverviewRoute(auth, table, q) ==
  IF auth.status # 0
  THEN [status |-> auth.status, body |-> auth.body]
  ELSE [status |-> 200, body |-> analyticsOverview(table, auth.user[1].id, q)]

\* GET /api/analytics/overview as registered again (415-463), without
\* authenticateToken: db.all is given no callback and returns the Database
\* object, transactions.filter raises, and the catch block answers.
OverviewSecondRoute(q) ==
  [status |-> 500, body |-> [error |-> "Failed to fetch analytics"]]

\* Express hands a request to the routes of its path in the order of their
\* registration, and to the next route only when a handler calls next()
\* without answering; <<>> stands for such a route.
RECURSIVE FirstAnswer(_)
FirstAnswer(answers) ==
  IF answers = <<>> THEN [status |-> 404, body |-> <<>>]
  ELSE IF Head(answers) # <<>> THEN Head(answers)[1]
  ELSE FirstAnswer(Tail(answers))
getAnalyticsOverview(table, authHeader, q) ==
  FirstAnswer(<< <<OverviewRoute(authenticateToken(authHeader), table, q)>>,
                 <<OverviewSecondRoute(q)>> >>)

\* The requests. Names, addresses and passwords of the users: every user
\* registers with an address of their own, one also with the address of
\* another, and a body has a field missing for each field.
Usernames == {<<"user", i>> : i \in UserIds}
Emails == {<<"mail", i>> : i \in UserIds}
Passwords == {<<"pw", 1>>, <<"pw", 2>>}
RegisterBodies ==
  {[username |-> <<"user", i>>, email |-> <<"mail", i>>, password |-> <<"pw", 1>>] :
     i \in UserIds}
  \cup {[username |-> <<"user", 2>>, email |-> <<"mail", 1>>, password |-> <<"pw", 1>>],
        [username |-> <<>>, email |-> <<"mail", 1>>, password |-> <<"pw", 1>>],
        [username |-> <<"user", 1>>, email |-> <<>>, password |-> <<"pw", 1>>],
        [username |-> <<"user", 1>>, email |-> <<"mail", 1>>, password |-> <<>>]}
LoginBodies ==
  {[username |-> u, password |-> p] :
     u \in Usernames \cup {<<>>}, p \in Passwords \cup {<<>>}}

\* The dates of transactions, and the bound a query filters by.
\* 2024-01-20
MidDate == <<"2", "0", "2", "4", "-", "0", "1", "-", "2", "0">>
ApiDates == {
  <<"2", "0", "2", "4", "-", "0", "1", "-", "1", "0">>,
  <<"2", "0", "2", "4", "-", "0", "1", "-", "2", "0">>,
  <<"2", "0", "2", "4", "-", "0", "2", "-", "0", "5">>}
FilterDates == {<<>>, MidDate}
TransactionBodies ==
  {[type |-> t, amount |-> 100, category |-> c, description |-> "memo", date |-> d] :
     t \in {"income", "expense"}, c \in {"Food", "Rent"}, d \in ApiDates}
  \cup {[type |-> t, amount |-> a, category |-> c, description |-> "memo", date |-> d] :
          <<t, a, c, d>> \in {<<"", 100, "Food", MidDate>>,
                              <<"income", 0, "Food", MidDate>>,
                              <<"income", 100, "", MidDate>>,
                              <<"income", 100, "Food", <<>>>>,
                              <<"transfer", 100, "Food", MidDate>>}}
TransactionQueries ==
  {[startDate |-> s, endDate |-> e, type |-> f[1], category |-> f[2],
    page |-> f[3], limit |-> f[4]] :
     s \in FilterDates, e \in FilterDates,
     f \in {<<"", "", 1, 50>>, <<"income", "", 1, 50>>, <<"", "Food", 1, 50>>,
            <<"", "", 2, 1>>}}
OverviewQueries ==
  {[startDate |-> s, endDate |-> e] : s \in FilterDates, e \in FilterDates}

\* The Authorization headers a client can send: none, one without a token,
\* the token the server issued to a user, and a token for a user signed with
\* a secret that is not the server's.
AuthHeaders(table) ==
  {NoHeader, <<"Bearer">>}
  \cup {<<"Bearer", jwtSign([id |-> table[k].id, username |-> table[k].username], s)>> :
          k \in 1..Len(table), s \in {JWT_SECRET, "guessed"}}

PostRegister ==
  /\ ret = NoCall
  /\ \E body \in RegisterBodies :
       \E r \in {postRegister(users, body)} :
          /\ users' = r.users
          /\ ret' = [op |-> "POST /api/register", request |-> body,
                     status |-> r.status, body |-> r.body]
  /\ UNCHANGED <<lastIndex, tz, pending, rows, overview, client>>

PostLogin ==
  /\ ret = NoCall
  /\ \E body \in LoginBodies :
       \E r \in {postLogin(users, body)} :
          ret' = [op |-> "POST /api/login", request |-> body,
                  status |-> r.status, body |-> r.body]
  /\ UNCHANGED <<lastIndex, tz, pending, users, rows, overview, client>>

PostTransactions ==
  /\ ret = NoCall
  /\ Len(rows) < MaxRows
  /\ \E authHeader \in AuthHeaders(users), body \in TransactionBodies :
       \E r \in {postTransactions(rows, authHeader, body)} :
          /\ rows' = r.rows
          /\ ret' = [op |-> "POST /api/transactions", auth |-> authHeader,
                     request |-> body, status |-> r.status, body |-> r.body]
  /\ UNCHANGED <<lastIndex, tz, pending, users, overview, client>>

GetTransactions ==
  /\ ret = NoCall
  /\ \E authHeader \in AuthHeaders(users), q \in TransactionQueries :
       \E r \in getTransactions(rows, authHeader, q) :
          ret' = [op |-> "GET /api/transactions", auth |-> authHeader,
                  query |-> q, status |-> r.status, body |-> r.body]
  /\ UNCHANGED <<lastIndex, tz, pending, users, rows, overview, client>>

GetAnalyticsOverview ==
  /\ ret = NoCall
  /\ \E authHeader \in AuthHeaders(users), q \in OverviewQueries :
       \E r \in {getAnalyticsOverview(rows, authHeader, q)} :
          ret' = [op |-> "GET /api/analytics/overview", auth |-> authHeader,
                  query |-> q, status |-> r.status, body |-> r.body]
  /\ UNCHANGED <<lastIndex, tz, pending, users, rows, overview, client>>

\* The server listens with its tables empty (47-111).
InitApi ==
  /\ lastIndex = FreshLastIndex
  /\ tz = 0
  /\ pending = 0
  /\ ret = NoCall
  /\ users = <<>>
  /\ rows = <<>>
  /\ overview = NoRequest
  /\ client = NoClient

NextApi ==
  \/ Return
  \/ PostRegister
  \/ PostLogin
  \/ PostTransactions
  \/ GetTransactions
  \/ GetAnalyticsOverview

SpecApi == InitApi /\ [][NextApi]_vars

\* ------------------------- the callbacks of GET /api/analytics/overview (304-341)

\* The keys of `queries` (304-316); totalQueries is their number (320).
QueryKeys == {"totalIncome", "totalExpenses", "expensesByCategory", "monthlyTrends"}
totalQueries == Cardinality(QueryKeys)

\* res.status(status).json(body) on the response of the request served: the
\* call is recorded in the order it is made.  headersSent tells that a
\* response had gone out before; Express then raises ERR_HTTP_HEADERS_SENT
\* inside the callback that made the call.
ResSend(o, status, body) ==
  [o EXCEPT !.sends = Append(@, [status |-> status, body |-> body,
                                 headersSent |-> Len(o.sends) > 0])]

\* An authenticated request arrives: the handler sets results = {} and
\* completed = 0 and issues the four queries, db.all for each (318-323).
OverviewRequest ==
  /\ ~overview.open
  /\ overview' = [open |-> TRUE, running |-> QueryKeys, completed |-> 0,
                  results |-> {}, sends |-> <<>>]
  /\ UNCHANGED <<lastIndex, tz, pending, ret, users, rows, client>>

\* The callback of query `key` runs with an error (324-326).
QueryFails(key) ==
  /\ key \in overview.running
  /\ overview' = ResSend([overview EXCEPT !.running = @ \ {key}],
                         500, <<"Failed to fetch", key>>)
  /\ UNCHANGED <<lastIndex, tz, pending, ret, users, rows, client>>

\* The callback of query `key` runs with rows (328-338): the result is kept,
\* and the callback that counts totalQueries answers with the results.
Completed(o) ==
  IF o.completed = totalQueries THEN ResSend(o, 200, o.results) ELSE o
QuerySucceeds(key) ==
  /\ key \in overview.running
  /\ overview' = Completed([overview EXCEPT !.running = @ \ {key},
                                             !.results = @ \cup {key},
                                             !.completed = @ + 1])
  /\ UNCHANGED <<lastIndex, tz, pending, ret, users, rows, client>>

\* Every callback has run; the server takes the next request.
OverviewServed ==
  /\ overview.open
  /\ overview.running = {}
  /\ overview' = NoRequest
  /\ UNCHANGED <<lastIndex, tz, pending, ret, users, rows, client>>

NextOverview ==
  \/ OverviewRequest
  \/ \E key \in QueryKeys : QueryFails(key)
  \/ \E key \in QueryKeys : QuerySucceeds(key)
  \/ OverviewServed

\* The server listens, as in InitApi, and serves no request yet.
SpecOverview == InitApi /\ [][NextOverview]_vars

\* ------------------------------- the frontend's AuthProvider (part_001, 31-65)

\* Tokens are numbered in the order of their issue; <<>> is null.  Token 0 is
\* one that an earlier visit left in localStorage.  client.inflight holds the
\* tokens whose verification request has no response yet.

\* The effect of lines 35-46 after a render with a new token: a token that is
\* set is sent to GET /transactions?limit=1 for verification.
VerifyToken(c) ==
  IF c.token # <<>> THEN [c EXCEPT !.inflight = @ \cup {c.token[1]}] ELSE c

\* login(token, userData) (48-52) and logout() (54-58).
login(c, token, userData) ==
  [c EXCEPT !.stored = <<token>>, !.token = <<token>>, !.user = <<userData>>]
logout(c) == [c EXCEPT !.stored = <<>>, !.token = <<>>, !.user = <<>>]

\* The login form, shown while no token is set, has logged in (234-237).
AuthLogin ==
  /\ client.token = <<>>
  /\ client.issued < MaxLogins
  /\ client' = VerifyToken(login([client EXCEPT !.issued = @ + 1],
                                 client.issued + 1, client.issued + 1))
  /\ UNCHANGED <<lastIndex, tz, pending, ret, users, rows, overview>>

\* The logout button, shown while a token is set, is clicked (927).
AuthLogout ==
  /\ client.token # <<>>
  /\ client' = logout(client)
  /\ UNCHANGED <<lastIndex, tz, pending, ret, users, rows, overview>>

\* The verification request sent for token t is answered with response.ok.
VerifyOk(t) ==
  /\ t \in client.inflight
  /\ client' = [client EXCEPT !.inflight = @ \ {t}]
  /\ UNCHANGED <<lastIndex, tz, pending, ret, users, rows, overview>>

\* The verification request sent for token t is answered with a response that
\* is not ok, or fetch rejects: logout() (41-44).
VerifyFailed(t) ==
  /\ t \in client.inflight
  /\ client' = logout([client EXCEPT !.inflight = @ \ {t}])
  /\ UNCHANGED <<lastIndex, tz, pending, ret, users, rows, overview>>

\* The page is loaded: useState(localStorage.getItem('token')) and the first
\* run of the effect (32-46).
InitAuth ==
  /\ lastIndex = FreshLastIndex
  /\ tz = 0
  /\ pending = 0
  /\ ret = NoCall
  /\ users = <<>>
  /\ rows = <<>>
  /\ overview = NoRequest
  /\ \E stored \in {<<>>, <<0>>} :
       client = VerifyToken([NoClient EXCEPT !.stored = stored, !.token = stored])

NextAuth ==
  \/ AuthLogin
  \/ AuthLogout
  \/ \E t \in 0..MaxLogins : VerifyOk(t)
  \/ \E t \in 0..MaxLogins : VerifyFailed(t)

SpecAuth == InitAuth /\ [][NextAuth]_vars

\* ------------------------------------------------------------------ claims

\* A transaction list is in order when no transaction is dated before its
\* predecessor; dates are compared as calendar dates, year, month, then day.
DateKey(str) ==
  <<NatOf(Slice(str, 0, Len(str) - 6)), NatOf(Slice(str, Len(str) - 5, Len(str) - 3)),
    NatOf(Slice(str, Len(str) - 2, Len(str)))>>
KeyLE(a, b) ==
  \/ a[1] < b[1]
  \/ a[1] = b[1] /\ a[2] < b[2]
  \/ a[1] = b[1] /\ a[2] = b[2] /\ a[3] <= b[3]
NonDecreasingByDate(ts) ==
  \A k \in 1..(Len(ts) - 1) : KeyLE(DateKey(ts[k].date), DateKey(ts[k + 1].date))

\* The transaction lists the processor has just returned: from
\* parseTransactionText, from cleanupTransactions, or in a processPDF result.
ReturnedList ==
  IF ret.op \in {"parseTransactionText", "cleanupTransactions"} THEN <<ret.value>>
  ELSE IF ret.op = "processPDF" THEN <<ret.value.transactions>>
  ELSE <<>>

\* n hundredths as an amount of the model.
Hundredths(n) == n * (Scale \div 100)

\* C1: parseTransactionText of the one-line text
\* "01/15/2024 WALMART PURCHASE $45.67" returns exactly one transaction, dated
\* "2024-01-15", of category "Shopping" and type expense.
C1_OneDatedTransaction ==
  (ret.op = "parseTransactionText" /\ ret.arg = WalmartLine) =>
    /\ Len(ret.value) = 1
    /\ ret.value[1].date = <<"2", "0", "2", "4", "-", "0", "1", "-", "1", "5">>
    /\ ret.value[1].category = "Shopping"
    /\ ret.value[1].type = "expense"

\* C2: what parseTransactionLine returns for a line depends on the line only:
\* after any history of calls it returns what a processor without history
\* returns for that line.
C2_OutcomeDependsOnLineOnly ==
  ret.op = "parseTransactionLine" =>
    ret.value = parseTransactionLine(ret.arg, FreshLastIndex, tz).value

\* C3: the description of the candidate of "01/15/2024 WALMART PURCHASE $45.67"
\* is the text before the amount without the date token, normalized: it
\* begins with "Walmart purchase".
C3_DescriptionWithoutDate ==
  (ret.op = "parseTransactionLine" /\ ret.arg = WalmartLine /\ ret.value # <<>>) =>
    StartsAt(ret.value[1].description, <<"W", "a", "l", "m", "a", "r", "t", " ", "p", "u", "r", "c", "h", "a", "s", "e">>, 0)

\* C4: "02/01/2024 PAYROLL DEPOSIT $2500.00 CR" yields a candidate of type
\* income, category "Salary" and amount 2500.00.
C4_PayrollCandidate ==
  (ret.op = "parseTransactionLine" /\ ret.arg = PayrollLine) =>
    /\ ret.value # <<>>
    /\ ret.value[1].type = "income"
    /\ ret.value[1].category = "Salary"
    /\ ret.value[1].amount = <<Hundredths(250000)>>

\* C5: every transaction list parseTransactionText returns (directly or in a
\* processPDF result) is non-decreasing by date.
C5_SortedByDate ==
  \A ts \in {ReturnedList[k] : k \in 1..Len(ReturnedList)} :
    ret.op # "cleanupTransactions" => NonDecreasingByDate(ts)

\* C5 witness: a two-line document whose later-dated line comes first has
\* been parsed, and both transactions are returned, the earlier date first.
C5_Witness ==
  /\ ret.op = "parseTransactionText"
  /\ Len(ret.value) = 2
  /\ ret.value[1].raw_line = GroceryLine
  /\ ret.value[2].raw_line = CafeLine
  /\ LastIndexOf(ret.arg, CafeLine) = 0

\* C6: every transaction of a list returned by cleanupTransactions, whatever
\* candidates it was given, and by parseTransactionText has a date, a
\* description and an amount above 0.
C6_OnlyCompletePositive ==
  \A ts \in {ReturnedList[k] : k \in 1..Len(ReturnedList)} :
    \A k \in 1..Len(ts) :
      /\ ts[k].date \notin {NullStr, <<>>}
      /\ ts[k].description \notin {NullStr, <<>>}
      /\ ts[k].amount # <<>>
      /\ ts[k].amount[1] > 0

\* C6 witness: cleanupTransactions was given a candidate with a negative
\* amount beside a valid one, and returned the valid one alone.
C6_Witness ==
  /\ ret.op = "cleanupTransactions"
  /\ Len(ret.arg) = 2
  /\ ret.arg[1].amount = <<-500>> /\ ret.arg[1].date # NullStr
  /\ ret.arg[2].amount = <<450>>
  /\ Len(ret.value) = 1

\* C7: a processPDF call in which reading the file, decoding it or parsing its
\* text raised an exception returns success = false, an error message and no
\* transactions; success = false never comes with transactions.
C7_FailureIsEmpty ==
  ret.op = "processPDF" =>
    /\ ret.threw => /\ ret.value.success = FALSE
                    /\ ret.value.error # ""
    /\ ret.value.success = FALSE => ret.value.transactions = <<>>
    /\ ret.value.success = TRUE => ~ret.threw

\* C7 witness: pdfParse rejected the file of a processPDF call, on a processor
\* that had parsed lines before.
C7_Witness ==
  /\ ret.op = "processPDF"
  /\ ret.threw
  /\ ret.value.error = "Invalid PDF structure"
  /\ lastIndex # FreshLastIndex

\* The calendar: the days of month m of year y.
IsLeapYear(y) == (y % 4 = 0 /\ y % 100 # 0) \/ y % 400 = 0
DaysInMonth(y, m) ==
  IF m = 2 THEN (IF IsLeapYear(y) THEN 29 ELSE 28)
  ELSE IF m \in {4, 6, 9, 11} THEN 30 ELSE 31
ValidCalendarDate(y, m, d) == m \in 1..12 /\ d \in 1..DaysInMonth(y, m)
CanonicalDate(y, m, d) ==
  Pad(NatStr(y), 4) \o <<"-">> \o TwoDigits(m) \o <<"-">> \o TwoDigits(d)

\* C8: normalizeDate maps every well-formed token of a valid calendar date to
\* that date's canonical year-month-day string, whatever else holds.
C8_ValidTokenCanonical ==
  (ret.op = "normalizeDate" /\ ret.fmt \in TokenFormats
     /\ ValidCalendarDate(ret.year, ret.month, ret.day)) =>
    ret.value = CanonicalDate(ret.year, ret.month, ret.day)

\* C9: normalizeDate returns null for every token whose month or day is out
\* of range.
C9_InvalidTokenNull ==
  (ret.op = "normalizeDate" /\ ret.fmt \in TokenFormats
     /\ ~ValidCalendarDate(ret.year, ret.month, ret.day)) =>
    ret.value = NullStr

\* C10: the amount recovered from a line whose amount token is written with
\* thousands separators is the token's value without the separators:
\* 1234.56 for "$1,234.56" and 1234567.89 for "$1,234,567.89".
C10_SeparatedAmount ==
  (ret.op = "parseTransactionLine" /\ ret.arg \in {RentLine, BonusLine}) =>
    /\ ret.transaction # <<>>
    /\ ret.transaction[1].amount =
         <<Hundredths(IF ret.arg = RentLine THEN 123456 ELSE 123456789)>>

\* C11: parseTransactionLine returns null for a line made of column-header
\* keywords only ("DATE DESCRIPTION AMOUNT BALANCE") and for a line that
\* announces a balance without "available" or "pending"
\* ("Closing Balance: $234.56"), whatever was parsed before.
C11_NoiseLinesSkipped ==
  (ret.op = "parseTransactionLine" /\ ret.arg \in {HeaderLine, BalanceLine}) =>
    /\ ret.value = <<>>
    /\ ret.transaction = <<>>

\* C11 witness: the balance line was skipped, and the test of the amount
\* patterns that showed it to be no header line left a position behind.
C11_Witness ==
  /\ ret.op = "parseTransactionLine"
  /\ ret.arg = BalanceLine
  /\ ret.value = <<>>
  /\ lastIndex # FreshLastIndex

\* C12: cleanupTransactions is idempotent: applied to a list it returned, it
\* returns that list, the same records in the same order.
C12_CleanupIdempotent ==
  ret.op = "cleanupTransactions" => cleanupTransactions(ret.value) = ret.value

\* C12 witness: cleanupTransactions returned two transactions of one date
\* that differ in amount, after dropping nothing and changing no record.
C12_Witness ==
  /\ ret.op = "cleanupTransactions"
  /\ Len(ret.value) = 2
  /\ ret.value[1].date = ret.value[2].date
  /\ ret.value[1].amount # ret.value[2].amount

\* The entries of the category table whose keyword the description holds in
\* upper case.
KeywordHits(description) ==
  {k \in 1..Len(categoryMappings) :
     Includes(ToUpperCase(description), categoryMappings[k][1])}
FirstHit(description) ==
  CHOOSE k \in KeywordHits(description) : \A j \in KeywordHits(description) : k <= j

\* C13: suggestCategory returns one label for every description: the label of
\* the first entry of the table, in its order, whose keyword the upper-cased
\* description contains; without such an entry "Transfer" when it contains
\* "TRANSFER" or "PAYMENT", and "Other" otherwise.
C13_FirstKeywordLabel ==
  ret.op = "suggestCategory" =>
    /\ ret.value # NullLabel
    /\ ret.value =
         IF KeywordHits(ret.arg) # {}
         THEN categoryMappings[FirstHit(ret.arg)][2]
         ELSE IF \/ Includes(ToUpperCase(ret.arg), <<"T", "R", "A", "N", "S", "F", "E", "R">>)
                 \/ Includes(ToUpperCase(ret.arg), <<"P", "A", "Y", "M", "E", "N", "T">>)
              THEN "Transfer"
              ELSE "Other"

\* C13 witness: a lower-case description holding the keywords of two entries
\* got the label of the earlier entry.
C13_Witness ==
  /\ ret.op = "suggestCategory"
  /\ ret.arg = <<"p", "a", "y", "r", "o", "l", "l", " ", "D", "E", "P", "O", "S", "I", "T">>
  /\ ret.value = "Income"
  /\ Cardinality(KeywordHits(ret.arg)) = 2

\* A record is labelled when its type is income or expense and its
\* description and category are not empty.
Labelled(t) ==
  /\ t.type \in {"income", "expense"}
  /\ t.description \notin {<<>>, NullStr}
  /\ t.category \notin {"", NullLabel}

\* C14: every transaction parseTransactionText returns (directly or in a
\* processPDF result) and every candidate parseTransactionLine returns has
\* type income or expense, a description and a category, so the defaults of
\* cleanupTransactions change none of them; a line whose cleaned description
\* is empty yields no candidate.
C14_RecordsLabelled ==
  /\ \A ts \in {ReturnedList[k] : k \in 1..Len(ReturnedList)} :
       ret.op # "cleanupTransactions" => \A k \in 1..Len(ts) : Labelled(ts[k])
  /\ ret.op = "parseTransactionLine" =>
       /\ ret.value # <<>> => Labelled(ret.value[1])
       /\ (ret.transaction # <<>> /\ ret.transaction[1].description = <<>>) =>
            ret.value = <<>>

\* C14 witness: the line "** 5.00 CR" gave an amount and an empty cleaned
\* description, and parseTransactionLine returned null for it.
C14_Witness ==
  /\ ret.op = "parseTransactionLine"
  /\ ret.arg = StarLine
  /\ ret.transaction # <<>>
  /\ ret.transaction[1].amount = <<Hundredths(500)>>
  /\ ret.transaction[1].description = <<>>
  /\ ret.value = <<>>

\* The number of transactions of a type in a list.
CountOfType(ts, type) == Cardinality({k \in 1..Len(ts) : ts[k].type = type})
\* The range names the earliest and the latest date of the list.
RangeSpans(range, ts) ==
  /\ \E k \in 1..Len(ts) : ts[k].date = range.start
  /\ \E k \in 1..Len(ts) : ts[k].date = range.end
  /\ \A k \in 1..Len(ts) :
       /\ KeyLE(DateKey(range.start), DateKey(ts[k].date))
       /\ KeyLE(DateKey(ts[k].date), DateKey(range.end))

\* C15: in every successful processPDF result the summary counts the returned
\* transactions, the expenses and the incomes, the two counts add up to the
\* total, and dateRange is null exactly for the empty list and otherwise
\* spans from the earliest to the latest date; a text without a transaction
\* line gives success with the empty list.
C15_SummaryMatches ==
  (ret.op = "processPDF" /\ ~ret.threw) =>
    /\ ret.value.success = TRUE
    /\ ret.value.summary.totalTransactions = Len(ret.value.transactions)
    /\ ret.value.summary.totalDebits = CountOfType(ret.value.transactions, "expense")
    /\ ret.value.summary.totalCredits = CountOfType(ret.value.transactions, "income")
    /\ ret.value.summary.totalDebits + ret.value.summary.totalCredits
         = ret.value.summary.totalTransactions
    /\ ret.value.summary.dateRange = <<>> <=> ret.value.transactions = <<>>
    /\ ret.value.summary.dateRange # <<>> =>
         RangeSpans(ret.value.summary.dateRange[1], ret.value.transactions)
    /\ SegmentLines(ret.value.rawText) = <<>> =>
         ret.value.transactions = <<>>

\* C15 witness: a successful result with an expense and an income of
\* different dates.
C15_Witness ==
  /\ ret.op = "processPDF"
  /\ ret.value.success = TRUE
  /\ ret.value.summary.totalDebits = 1
  /\ ret.value.summary.totalCredits = 1
  /\ ret.value.summary.dateRange # <<>>
  /\ ret.value.summary.dateRange[1].start # ret.value.summary.dateRange[1].end

\* C16: prepareForDatabase returns as many rows as it was given transactions,
\* in their order; every row has the user id passed in, a null receipt_path
\* and the type, amount, category, description and date of its transaction;
\* the array passed in is left as it was.
C16_RowsCopyTransactions ==
  ret.op = "prepareForDatabase" =>
    /\ Len(ret.value) = Len(ret.arg)
    /\ \A k \in 1..Len(ret.arg) :
         /\ ret.value[k].user_id = ret.userId
         /\ ret.value[k].receipt_path = NullStr
         /\ ret.value[k].type = ret.arg[k].type
         /\ ret.value[k].amount = ret.arg[k].amount
         /\ ret.value[k].category = ret.arg[k].category
         /\ ret.value[k].description = ret.arg[k].description
         /\ ret.value[k].date = ret.arg[k].date
    /\ ret.after = ret.arg

\* C16 witness: two transactions that differ were prepared for the second
\* user.
C16_Witness ==
  /\ ret.op = "prepareForDatabase"
  /\ ret.userId = 2
  /\ Len(ret.value) = 2
  /\ ret.arg[1] # ret.arg[2]

\* The text a call of parseTransactionText or processPDF was given, and the
\* places in a list of lines whose trimmed text is r.
ParsedText ==
  IF ret.op = "parseTransactionText" THEN ret.arg ELSE ret.value.rawText
PlacesOf(r, rawLines) == {j \in 1..Len(rawLines) : Trim(rawLines[j]) = r}
PlacesIn(r, ts) == {k \in 1..Len(ts) : ts[k].raw_line = r}

\* C17: every transaction parseTransactionText returns has as raw_line the
\* trimmed text of a non-empty line of the input; no line gives more than one
\* transaction, so there are at most as many transactions as non-empty lines.
C17_RawLineTraceable ==
  \A ts \in {ReturnedList[k] : k \in 1..Len(ReturnedList)} :
    (ret.op = "parseTransactionText" \/ (ret.op = "processPDF" /\ ~ret.threw)) =>
      /\ \A k \in 1..Len(ts) :
           /\ ts[k].raw_line # <<>>
           /\ Cardinality(PlacesIn(ts[k].raw_line, ts))
                <= Cardinality(PlacesOf(ts[k].raw_line, Split(ParsedText, "\n")))
      /\ Len(ts) <= Cardinality({j \in 1..Len(Split(ParsedText, "\n")) :
                                   Trim(Split(ParsedText, "\n")[j]) # <<>>})

\* C17 witness: a document that holds one line twice gave two transactions
\* with that raw_line.
C17_Witness ==
  /\ ret.op = "parseTransactionText"
  /\ Len(ret.value) = 2
  /\ ret.value[1].raw_line = ret.value[2].raw_line
  /\ Cardinality(PlacesOf(ret.value[1].raw_line, Split(ret.arg, "\n"))) = 2

\* The trimmed non-empty lines of a text that, as a text of their own on a
\* processor without history, give a transaction.
LinesWithTransaction(text) ==
  {Trim(Split(text, "\n")[j]) : j \in 1..Len(Split(text, "\n"))}
    \cap {line \in Lines : parseTransactionText(line, FreshLastIndex, tz).value # <<>>}

\* C18: parseTransactionText absorbs every miss of a line: a line without
\* date, amount or description is absent from the output, and the
\* transactions of the other lines of the text are returned.
C18_OtherLinesReturned ==
  ret.op = "parseTransactionText" =>
    \A line \in LinesWithTransaction(ret.arg) :
      \E k \in 1..Len(ret.value) : ret.value[k].raw_line = line

\* A request is made as a user when its Authorization header carries a token
\* the server signed; the user is the one the token names.
HoldsServerToken(authHeader) ==
  Len(authHeader) = 2 /\ authHeader[2].secret = JWT_SECRET
\* The table transactions without the rows of other users.
RECURSIVE OwnTable(_, _)
OwnTable(table, userId) ==
  IF table = <<>> THEN <<>>
  ELSE IF Head(table).user_id = userId
  THEN <<Head(table)>> \o OwnTable(Tail(table), userId)
  ELSE OwnTable(Tail(table), userId)

\* C19: whatever users registered, logged in and created, the transactions
\* GET /api/transactions returns to a user are that user's, the figures of
\* GET /api/analytics/overview are those the user's transactions alone give,
\* and a request to either without a token of the server is answered 401 or
\* 403 with an error and nothing else.
C19_OnlyOwnTransactions ==
  ret.op \in {"GET /api/transactions", "GET /api/analytics/overview"} =>
    IF HoldsServerToken(ret.auth)
    THEN /\ ret.status = 200
         /\ ret.op = "GET /api/transactions" =>
              \A k \in 1..Len(ret.body.transactions) :
                ret.body.transactions[k].user_id = ret.auth[2].payload.id
         /\ ret.op = "GET /api/analytics/overview" =>
              ret.body = analyticsOverview(OwnTable(rows, ret.auth[2].payload.id),
                                           ret.auth[2].payload.id, ret.query)
    ELSE /\ ret.status \in {401, 403}
         /\ DOMAIN ret.body = {"error"}

\* C19 witness: two users hold a transaction each, and the overview of one of
\* them counts that user's transaction alone.
C19_Witness ==
  /\ ret.op = "GET /api/analytics/overview"
  /\ ret.status = 200
  /\ Len(rows) = 2
  /\ rows[1].user_id # rows[2].user_id
  /\ rows[1].type = rows[2].type
  /\ ret.body.totalIncome + ret.body.totalExpenses = 100

\* A transaction lies within the bounds a query supplies.
WithinSupplied(row, q) ==
  /\ q.startDate # <<>> => KeyLE(DateKey(q.startDate), DateKey(row.date))
  /\ q.endDate # <<>> => KeyLE(DateKey(row.date), DateKey(q.endDate))
SuppliedRows(userId, q) ==
  {k \in 1..Len(rows) : rows[k].user_id = userId /\ WithinSupplied(rows[k], q)}

\* C20: GET /api/analytics/overview applies each bound the query supplies,
\* also when it supplies one only: totalIncome, totalExpenses, the categories
\* and the months hold nothing of a transaction dated before startDate or
\* after endDate.
C20_EachBoundApplied ==
  (ret.op = "GET /api/analytics/overview" /\ ret.status = 200) =>
    /\ ret.body.totalIncome
         <= SumAmounts(rows, OfType(rows, SuppliedRows(ret.auth[2].payload.id, ret.query),
                                    "income"))
    /\ ret.body.totalExpenses
         <= SumAmounts(rows, OfType(rows, SuppliedRows(ret.auth[2].payload.id, ret.query),
                                    "expense"))
    /\ \A c \in ret.body.expensesByCategory :
         \E k \in SuppliedRows(ret.auth[2].payload.id, ret.query) :
           rows[k].type = "expense" /\ rows[k].category = c.category
    /\ \A m \in ret.body.monthlyTrends :
         \E k \in SuppliedRows(ret.auth[2].payload.id, ret.query) :
           Slice(rows[k].date, 0, 7) = m.month

\* The call that has just returned is parseTransactionLine and it went past
\* the header and balance tests.
ExtractedLine == ret.op = "parseTransactionLine" /\ ret.transaction # <<>>

\* C21: a line that holds a header keyword and a recognized amount, and is no
\* balance line, is not suppressed by the header test: parseTransactionLine
\* takes it for a candidate, with the amount the extractor recovers from the
\* line when no header test has run on it.
C21_HeaderWordLineKept ==
  (/\ ret.op = "parseTransactionLine"
   /\ HasHeaderKeyword(ToUpperCase(ret.arg))
   /\ ~isBalanceLine(ret.arg)
   /\ AmountFrom(1, ret.arg, FreshLastIndex).amount # <<>>) =>
    /\ ret.transaction # <<>>
    /\ ret.transaction[1].amount = AmountFrom(1, ret.arg, FreshLastIndex).amount

\* The amount patterns with a match somewhere in the line, and the amount of
\* the last of the non-overlapping matches of pattern p in the whole line.
PatternsIn(line) == {p \in AmountPatterns : MatchAll(p, line, 0) # <<>>}
LastAmountIn(p, line) ==
  AmountOfMatch(line, MatchAll(p, line, 0)[Len(MatchAll(p, line, 0))])

\* C22: the amount parseTransactionLine extracts is the last of the
\* non-overlapping matches, in the whole line, of the first of the five
\* amount patterns that matches the line anywhere; without such a pattern
\* there is no amount.
C22_LastMatchOfFirstPattern ==
  ExtractedLine =>
    IF PatternsIn(ret.arg) = {} THEN ret.transaction[1].amount = <<>>
    ELSE ret.transaction[1].amount =
           <<LastAmountIn(CHOOSE p \in PatternsIn(ret.arg) :
                            \A q \in PatternsIn(ret.arg) : p <= q, ret.arg)>>

\* C23: a candidate from a line that holds an explicit "CR", a bare minus
\* elsewhere and no "DR" has type income.
C23_ExplicitCreditPreferred ==
  (/\ ret.op = "parseTransactionLine"
   /\ ret.value # <<>>
   /\ Includes(ret.arg, <<"C", "R">>)
   /\ Includes(ret.arg, <<"-">>)
   /\ ~Includes(ret.arg, <<"D", "R">>)) =>
    ret.value[1].type = "income"

\* The cues of lines 600-605 as the line shows them: a debit cue is "DR" or a
\* minus (a pattern with a minus matches only a line with a minus), and the
\* credit signal is set for "CR" or "DEPOSIT" in a line without debit cue.
DebitCue(line) == Includes(line, <<"D", "R">>) \/ Includes(line, <<"-">>)
CreditCue(line) ==
  /\ ~DebitCue(line)
  /\ \/ Includes(line, <<"C", "R">>)
     \/ Includes(line, <<"D", "E", "P", "O", "S", "I", "T">>)

\* C24: a candidate has type income exactly when the credit signal was set
\* for its line or its description holds an income keyword in any case, and
\* type expense otherwise; a debit cue does not make a candidate with an
\* income keyword an expense.
C24_IncomeIffCreditOrKeyword ==
  (ret.op = "parseTransactionLine" /\ ret.value # <<>>) =>
    /\ ret.value[1].type \in {"income", "expense"}
    /\ ret.value[1].type = "income" <=>
         (CreditCue(ret.arg) \/ HasIncomeKeyword(ToUpperCase(ret.value[1].description)))

\* C24 witness: "01/20/2024 REFUND 9.99 DR" holds a debit cue, its description
\* holds "refund" in lower case, and the candidate is an income.
C24_Witness ==
  /\ ret.op = "parseTransactionLine"
  /\ ret.arg = RefundDebitLine
  /\ ret.value # <<>>
  /\ DebitCue(ret.arg)
  /\ Includes(ret.value[1].description, <<"r", "e", "f", "u", "n", "d">>)
  /\ ret.value[1].type = "income"

\* The match the amount of the line just parsed was read from: the last match
\* of the pattern that decided the amount, found from the lastIndex the header
\* test left (matchAll leaves it as it is).
AmountMatchOf(line) ==
  MatchAll(AmountFrom(1, line, lastIndex).pattern, line,
           lastIndex[AmountFrom(1, line, lastIndex).pattern])
LastAmountMatch(line) == AmountMatchOf(line)[Len(AmountMatchOf(line))]

\* C27: when parseTransactionLine recovers an amount from a line whose amount
\* token is preceded by other text, the string form of the amount occurs in
\* the line at an index above 0 and the description is found.
C27_AmountTextLocated ==
  (/\ ExtractedLine
   /\ TruthyNumber(ret.transaction[1].amount)
   /\ LastAmountMatch(ret.arg).gs > 0) =>
    /\ LastIndexOf(ret.arg, NumberToString(ret.transaction[1].amount[1])) > 0
    /\ ret.transaction[1].description # NullStr

\* C28: the amount of "15-01-2024 STORE 4.50-" is 4.50: it is read from the
\* amount token, not from the digits of the date token.
C28_AmountNotFromDate ==
  (ret.op = "parseTransactionLine" /\ ret.arg = StoreLine) =>
    /\ ret.transaction # <<>>
    /\ ret.transaction[1].amount = <<Hundredths(450)>>

\* A text in cleaned form: no asterisk, no "#" with a digit after it, no two
\* whitespace characters in a row, no whitespace at either end.
CleanedForm(s) ==
  /\ \A k \in 1..Len(s) : s[k] # "*"
  /\ \A k \in 1..(Len(s) - 1) : ~(s[k] = "#" /\ s[k + 1] \in Digit)
  /\ \A k \in 1..(Len(s) - 1) : ~(s[k] \in Whitespace /\ s[k + 1] \in Whitespace)
  /\ s # <<>> => (s[1] \notin Whitespace /\ s[Len(s)] \notin Whitespace)

\* C25: whatever text cleanupDescription is given, what it returns is in
\* cleaned form.
C25_DescriptionCleaned ==
  ret.op = "cleanupDescription" => CleanedForm(ret.value)

\* The transactions of a list that bear the date d, in the order of the list.
DatedOn(ts, d) == LET OnDate(t) == t.date = d IN SelectSeq(ts, OnDate)

\* The candidates of the lines of a text in the order of the lines, as
\* parseTransactionText collects them on a processor whose patterns hold the
\* lastIndex values lastIdx, those that pass the filters of cleanupTransactions.
CollectedFrom(text, lastIdx) ==
  MapDefaults(FilterValid(ParseLines(SegmentLines(text), <<>>, lastIdx, tz).transactions))
SourceOrderKept(text, lastIdx, result) ==
  \A d \in {result[k].date : k \in 1..Len(result)} :
    DatedOn(result, d) = DatedOn(CollectedFrom(text, lastIdx), d)

\* C26: the sort is stable: in every list parseTransactionText returns, the
\* transactions of one date stand in the order of their source lines in the
\* text.
C26_StableSort ==
  ret.op = "parseTransactionText" =>
    SourceOrderKept(ret.arg, ret.before, ret.value)

\* C26 witness: a text of two different lines of one date has returned both
\* transactions, the one of the first line first.
C26_Witness ==
  /\ ret.op = "parseTransactionText"
  /\ Len(SegmentLines(ret.arg)) = 2
  /\ Len(ret.value) = 2
  /\ ret.value[1].date = ret.value[2].date
  /\ ret.value[1].raw_line # ret.value[2].raw_line
  /\ ret.value[1].raw_line = SegmentLines(ret.arg)[1]
  /\ ret.value[2].raw_line = SegmentLines(ret.arg)[2]

\* C29: the handler of GET /api/analytics/overview answers a request exactly
\* once, whichever of its four queries fail and in whatever order their
\* callbacks run: it never sends a second response, and once every callback
\* has run it has sent one.
C29_ExactlyOneResponse ==
  /\ Len(overview.sends) <= 1
  /\ (overview.open /\ overview.running = {}) => Len(overview.sends) = 1

\* C30: a failed verification ends the session of its own token only: when
\* the response to the verification request sent for token t fails while a
\* later login's token is set, the token and the localStorage entry stay.
C30_LateFailureSpared ==
  [][\A t \in client.inflight :
       (VerifyFailed(t) /\ client.token # <<>> /\ client.token # <<t>>) =>
         /\ client'.token = client.token
         /\ client'.stored = client.stored]_vars

====
